---- MODULE Spec2Model ----
(***************************************************************************)
(* A model of the manifold3d binding layer: the owning wrappers around the *)
(* kernel's opaque handles (Manifold, MeshGL, BoundingBox, Polygons,       *)
(* SimplePolygon, CrossSection) and the validated scalar types             *)
(* (PositiveNum, NonNegativeNum, NormalizedAngle, MinimumSmoothness).      *)
(*                                                                         *)
(* The native kernel is an external collaborator reached through its C     *)
(* ABI.  It is modelled as a heap of handles: an alloc function returns a  *)
(* fresh handle in state "alloc", a populate/operation function writes     *)
(* into the handle given as `mem` (state "init"), a delete function frees  *)
(* it (state "deleted").  Geometry is observed through one axis only: the  *)
(* content of a manifold or a box is its extent <<lo, hi>> on that axis.   *)
(***************************************************************************)
EXTENDS Integers, Sequences, FiniteSets, TLC

\* ------------------------------------------------------------------ bounds

\* Number of handles the kernel can hand out in one run.
MaxHandles == 3

\* Largest coordinate of a box or manifold extent.
MaxCoord == 1

\* An f64 is modelled to a resolution of 1/Den.
Den == 2

\* Scalar inputs range over -MaxDeg..MaxDeg (degrees, or plain numbers).
MaxDeg == 400

\* The model's i32 is this many bits wide; its usize is wider.
I32Bits == 4

\* Longest `others` slice of a batch_boolean call.
MaxOthers == 1

\* Most points of a SimplePolygon.
MaxPoints == 1

\* Threads that expand macros side by side.
MaxThreads == 2

\* Most macro expansions one compiler process makes.
MaxExpansions == 3

\* Angles a caller computes with: this many, evenly spaced over the turn.
MaxAngles == 36

\* Most simple polygons put into a Polygons.
MaxPolygons == MaxPoints + 1

\* Handles the kernel can hand out in a run that converts a Polygons to a
\* vector: the simple polygons it was built from, the Polygons, and two more.
CollectionHandles == MaxHandles + 2

\* 360.0, the full turn NormalizedAngle reduces by.
FullTurn == 360

Handles == 1..CollectionHandles

NoHandle == 0

Coords == 0..MaxCoord

NoVal == <<0, 0>>

Kinds == {"manifold", "meshgl", "box", "polygons", "simple_polygon",
          "manifold_vec", "cross_section"}

VARIABLES
    kernel,     \* the native side: heap of handles and the misuse it has seen
    wrappers,   \* handle -> number of live wrappers that hold it
    drops,      \* handle -> number of wrappers of it that were dropped
    last,       \* the last public call: its name, receiver, result
    sc,         \* the last call on a validated scalar type
    cb,         \* the callback bridge: the kernel call in flight, if any
    mx          \* the macro crate: its counter and the expansions made

hvars == <<kernel, wrappers, drops, last>>

\* ------------------------------------------------------- validated scalars

\* An f64 is a multiple of 1/Den, or NaN; an integer type is a multiple of 1.
\* Comparisons with NaN are false, as in IEEE 754.
Num(v) == [nan |-> FALSE, v |-> v]

NaN == [nan |-> TRUE, v |-> 0]

Zero == Num(0)

Lt(a, b) == ~a.nan /\ ~b.nan /\ a.v < b.v

Le(a, b) == ~a.nan /\ ~b.nan /\ a.v <= b.v

Gt(a, b) == ~a.nan /\ ~b.nan /\ a.v > b.v

Ge(a, b) == ~a.nan /\ ~b.nan /\ a.v >= b.v

\* f64::from(n) for an integer n, and f64 literals such as 360.0.
F64(n) == Num(n * Den)

\* i32::from(n)
I32(n) == Num(n)

\* a + b on f64
FAdd(a, b) == IF a.nan \/ b.nan THEN NaN ELSE Num(a.v + b.v)

\* a - b on f64
FSub(a, b) == IF a.nan \/ b.nan THEN NaN ELSE Num(a.v - b.v)

\* a % b on f64 for a finite b > 0: the remainder has the sign of a.
FRem(a, b) ==
    IF a.nan \/ b.nan THEN NaN
    ELSE IF a.v >= 0 THEN Num(a.v % b.v) ELSE Num(-((-a.v) % b.v))

Okay(val) == [ok |-> TRUE, val |-> val, err |-> "none"]

Fail(err, actual) == [ok |-> FALSE, val |-> actual, err |-> err]

\* PositiveNum(value): the tuple struct around the value.
PositiveNum(value) == [inner |-> value]

\* A validity test that lets zero through.
PositiveNum_is_valid_ge(value) == Ge(value, Zero)

\* PositiveNum::is_valid
PositiveNum_is_valid(value) == Gt(value, Zero)

\* PositiveNum::new
PositiveNum_new(value) ==
    IF ~PositiveNum_is_valid(value)
    THEN Fail("NonPositiveValue", PositiveNum(value))
    ELSE Okay(PositiveNum(value))

\* PositiveNum::get
PositiveNum_get(self) == self.inner

\* impl_positive_num_from!(PositiveF64, f64, (u8, u16, u32))
PositiveF64_from(value) == PositiveNum(F64(value))

\* impl_positive_num_from!(PositiveI32, i32, (u8, u16))
PositiveI32_from(value) == PositiveNum(I32(value))

\* impl_positive_num_try_from!(PositiveF64, f64, (i8, i16, i32, f32, f64)),
\* for the integer source types.
PositiveF64_try_from(value) == PositiveNum_new(F64(value))

\* impl_positive_num_try_from!(PositiveI32, i32, (i8, i16, i32))
PositiveI32_try_from(value) == PositiveNum_new(I32(value))

\* NonNegativeNum(value)
NonNegativeNum(value) == [inner |-> value]

\* A validity test that turns zero away.
NonNegativeNum_is_valid_gt(value) == Gt(value, Zero)

\* NonNegativeNum::is_valid
NonNegativeNum_is_valid(value) == Ge(value, Zero)

\* NonNegativeNum::new
NonNegativeNum_new(value) ==
    IF ~NonNegativeNum_is_valid(value)
    THEN Fail("NonPositiveValue", NonNegativeNum(value))
    ELSE Okay(NonNegativeNum(value))

\* NonNegativeNum::get
NonNegativeNum_get(self) == self.inner

\* impl_positive_num_from!(NonNegativeF64, f64, (u8, u16, u32))
NonNegativeF64_from(value) == NonNegativeNum(F64(value))

\* impl_positive_num_from!(NonNegativeI32, i32, (u8, u16))
NonNegativeI32_from(value) == NonNegativeNum(I32(value))

\* impl_positive_num_try_from!(NonNegativeF64, f64, (i8, i16, i32, f32, f64))
NonNegativeF64_try_from(value) == NonNegativeNum_new(F64(value))

\* impl_positive_num_try_from!(NonNegativeI32, i32, (i8, i16, i32))
NonNegativeI32_try_from(value) == NonNegativeNum_new(I32(value))

\* NormalizedAngle::normalize
NormalizedAngle_normalize(value) ==
    LET r == FRem(value, F64(FullTurn))
    IN IF Lt(r, F64(0)) THEN FSub(F64(FullTurn), r) ELSE r

\* NormalizedAngle::from_degrees
NormalizedAngle_from_degrees(value) ==
    [inner |-> NormalizedAngle_normalize(value)]

\* NormalizedAngle::as_degrees
NormalizedAngle_as_degrees(self) == self.inner

\* MinimumSmoothness::MINIMUM
MinimumSmoothness_MINIMUM == F64(0)

\* MinimumSmoothness::MAXIMUM
MinimumSmoothness_MAXIMUM == F64(1)

\* A range test with the upper bound left out: MINIMUM..MAXIMUM.
MinimumSmoothness_contains_exclusive(smoothness) ==
    /\ Le(MinimumSmoothness_MINIMUM, smoothness)
    /\ Lt(smoothness, MinimumSmoothness_MAXIMUM)

\* (MINIMUM..=MAXIMUM).contains(&smoothness)
MinimumSmoothness_contains(smoothness) ==
    /\ Le(MinimumSmoothness_MINIMUM, smoothness)
    /\ Le(smoothness, MinimumSmoothness_MAXIMUM)

\* MinimumSmoothness::new
MinimumSmoothness_new(smoothness) ==
    IF ~MinimumSmoothness_contains(smoothness)
    THEN [ok |-> FALSE, val |-> [inner |-> smoothness], err |-> "OutOfBounds",
          minimum |-> MinimumSmoothness_MINIMUM,
          maximum |-> MinimumSmoothness_MAXIMUM, actual |-> smoothness]
    ELSE [ok |-> TRUE, val |-> [inner |-> smoothness], err |-> "none",
          minimum |-> MinimumSmoothness_MINIMUM,
          maximum |-> MinimumSmoothness_MAXIMUM, actual |-> smoothness]

\* MinimumSmoothness::get
MinimumSmoothness_get(self) == self.inner

\* EdgeSplitCount::MINIMUM
EdgeSplitCount_MINIMUM == 2

\* A comparison that also turns away a count equal to the other side.
PositiveI32_lt_or_eq(self, other) == Le(PositiveNum_get(self), I32(other))

\* impl_partial_ord!(PositiveI32, i32, ...): num < other
PositiveI32_lt(self, other) == Lt(PositiveNum_get(self), I32(other))

\* EdgeSplitCount::new, on the PositiveI32 that num.into() gives
EdgeSplitCount_new(num) ==
    IF PositiveI32_lt(num, EdgeSplitCount_MINIMUM)
    THEN [ok |-> FALSE, val |-> [inner |-> num], err |-> "TooSmall",
          minimum |-> EdgeSplitCount_MINIMUM,
          actual |-> PositiveNum_get(num).v]
    ELSE [ok |-> TRUE, val |-> [inner |-> num], err |-> "none",
          minimum |-> EdgeSplitCount_MINIMUM,
          actual |-> PositiveNum_get(num).v]

\* EdgeSplitCount::get
EdgeSplitCount_get(self) == self.inner

\* impl From<EdgeSplitCount> for i32
EdgeSplitCount_into_i32(val) == PositiveNum_get(EdgeSplitCount_get(val)).v

\* ------------------------------------------------------------ error codes

ManifoldError_MANIFOLD_NO_ERROR == 0

ManifoldError_MANIFOLD_NON_FINITE_VERTEX == 1

ManifoldError_MANIFOLD_NOT_MANIFOLD == 2

ManifoldError_MANIFOLD_VERTEX_INDEX_OUT_OF_BOUNDS == 3

ManifoldError_MANIFOLD_PROPERTIES_WRONG_LENGTH == 4

ManifoldError_MANIFOLD_MISSING_POSITION_PROPERTIES == 5

ManifoldError_MANIFOLD_MERGE_VECTORS_DIFFERENT_LENGTHS == 6

ManifoldError_MANIFOLD_MERGE_INDEX_OUT_OF_BOUNDS == 7

ManifoldError_MANIFOLD_TRANSFORM_WRONG_LENGTH == 8

ManifoldError_MANIFOLD_RUN_INDEX_WRONG_LENGTH == 9

ManifoldError_MANIFOLD_FACE_ID_WRONG_LENGTH == 10

ManifoldError_MANIFOLD_INVALID_CONSTRUCTION == 11

\* A variant of Error; raw is the code Unknown carries, 0 for a unit variant.
Error(variant) == [variant |-> variant, raw |-> 0]

Error_Unknown(value) == [variant |-> "Unknown", raw |-> value]

\* A conversion that forgets the code it could not name.
Error_from_lossy(value) ==
    IF value = ManifoldError_MANIFOLD_NO_ERROR THEN Error(Error("NoError"))
    ELSE Error("Unknown")

\* impl From<u32> for Error
Error_from(value) ==
    CASE value = ManifoldError_MANIFOLD_NO_ERROR -> Error("NoError")
      [] value = ManifoldError_MANIFOLD_NON_FINITE_VERTEX -> Error("NonFiniteVertex")
      [] value = ManifoldError_MANIFOLD_NOT_MANIFOLD -> Error("NotManifold")
      [] value = ManifoldError_MANIFOLD_VERTEX_INDEX_OUT_OF_BOUNDS ->
            Error("VertexIndexOutOfBounds")
      [] value = ManifoldError_MANIFOLD_PROPERTIES_WRONG_LENGTH ->
            Error("PropertiesWrongLength")
      [] value = ManifoldError_MANIFOLD_MISSING_POSITION_PROPERTIES ->
            Error("MissingPositionProperties")
      [] value = ManifoldError_MANIFOLD_MERGE_VECTORS_DIFFERENT_LENGTHS ->
            Error("MergeVectorsDifferentLengths")
      [] value = ManifoldError_MANIFOLD_MERGE_INDEX_OUT_OF_BOUNDS ->
            Error("MergeIndexOutOfBounds")
      [] value = ManifoldError_MANIFOLD_TRANSFORM_WRONG_LENGTH ->
            Error("TransformWrongLength")
      [] value = ManifoldError_MANIFOLD_RUN_INDEX_WRONG_LENGTH ->
            Error("RunIndexWrongLength")
      [] value = ManifoldError_MANIFOLD_FACE_ID_WRONG_LENGTH ->
            Error("FaceIdWrongLength")
      [] value = ManifoldError_MANIFOLD_INVALID_CONSTRUCTION ->
            Error("InvalidConstruction")
      [] OTHER -> Error_Unknown(value)

\* ------------------------------------------------------- the kernel's ABI

FreeObj == [kind |-> "none", st |-> "free", val |-> NoVal, dels |-> 0,
            delfn |-> "none"]

KernelInit ==
    [heap |-> [h \in Handles |-> FreeObj], uninit |-> {}, uaf |-> {},
     oob |-> {}, cap |-> MaxHandles, props |-> [h \in Handles |-> 0]]

\* The handles still to be handed out, of the k.cap the run is limited to.
FreeHandles(k) == {h \in 1..k.cap : k.heap[h].st = "free"}

\* The handle the next alloc call returns: handles are never handed out twice.
Fresh(k) == CHOOSE h \in FreeHandles(k) : \A g \in FreeHandles(k) : h <= g

HasFree(k, n) == Cardinality(FreeHandles(k)) >= n

\* manifold_alloc_<kind>(): uninitialised kernel memory.
KAlloc(k, kind) ==
    [k EXCEPT !.heap[Fresh(k)] =
        [kind |-> kind, st |-> "alloc", val |-> NoVal, dels |-> 0,
         delfn |-> "none"]]

\* A kernel function reads handle h as an input operand.
KUse(k, h) ==
    [k EXCEPT !.uninit = IF k.heap[h].st = "alloc" THEN @ \cup {h} ELSE @,
              !.uaf = IF k.heap[h].st = "deleted" THEN @ \cup {h} ELSE @]

RECURSIVE KUseAll(_, _)
KUseAll(k, hs) ==
    IF hs = <<>> THEN k ELSE KUseAll(KUse(k, Head(hs)), Tail(hs))

\* A kernel function reads element index of the collection behind h.
KElem(k, h, index) ==
    [KUse(k, h) EXCEPT
        !.oob = IF index >= Len(k.heap[h].val) THEN @ \cup {h} ELSE @]

\* A populate/operation function: reads its operands, writes val into mem.
KOp(k, mem, operands, val) ==
    [KUseAll(k, operands) EXCEPT !.heap[mem].st = "init", !.heap[mem].val = val]

\* manifold_delete_<fn>(h): the memory behind h is gone.
KDelete(k, h, fn) ==
    [k EXCEPT !.heap[h].st = "deleted", !.heap[h].dels = @ + 1,
              !.heap[h].delfn = fn, !.heap[h].val = NoVal]

\* manifold_box_include_pt(h, p): the kernel grows the box in place.
KBoxIncludePt(k, h, p) ==
    LET b == k.heap[h].val
        lo == IF p < b[1] THEN p ELSE b[1]
        hi == IF p > b[2] THEN p ELSE b[2]
    IN [KUse(k, h) EXCEPT !.heap[h].val = <<lo, hi>>]

Shift(v, t) == <<v[1] + t, v[2] + t>>

Hull(a, b) == <<IF a[1] < b[1] THEN a[1] ELSE b[1],
                IF a[2] > b[2] THEN a[2] ELSE b[2]>>

InCoords(v) == v[1] \in Coords /\ v[2] \in Coords

\* manifold_cube: a cuboid of the given size with a corner at the origin.
KCube(x_size) == <<0, x_size.v>>

\* manifold_boolean, manifold_union, manifold_difference,
\* manifold_intersection: the extent of the result.
KBoolean(fn, a, b) ==
    CASE fn \in {"manifold_union", "MANIFOLD_ADD"} -> Hull(a, b)
      [] fn \in {"manifold_intersection", "MANIFOLD_INTERSECT"} ->
            IF a[2] < b[1] \/ b[2] < a[1] THEN <<0, 0>>
            ELSE <<IF a[1] > b[1] THEN a[1] ELSE b[1],
                   IF a[2] < b[2] THEN a[2] ELSE b[2]>>
      [] OTHER -> a

\* manifold_manifold_vec(mem, sz): a vector of sz empty manifolds.
KManifoldVec(k, mem, sz) == KOp(k, mem, <<>>, [i \in 1..sz |-> NoHandle])

\* manifold_manifold_vec_set(ms, idx, m): element idx of the vector is m.
KManifoldVecSet(k, ms, idx, m) ==
    IF idx < Len(k.heap[ms].val)
    THEN [KUse(k, m) EXCEPT
             !.heap[ms].val = SubSeq(@, 1, idx) \o <<m>>
                                  \o SubSeq(@, idx + 2, Len(@))]
    ELSE [KUse(k, m) EXCEPT !.oob = @ \cup {ms}]

\* The extent of element e of a vector; an element never set is empty.
KVecVal(k, e) == IF e = NoHandle THEN NoVal ELSE k.heap[e].val

\* manifold_batch_boolean: the operation folded from the left over the
\* elements at position from and after it, acc being the result so far.
RECURSIVE KBatchBoolean(_, _, _, _, _)
KBatchBoolean(k, op, acc, elems, from) ==
    IF from > Len(elems) THEN acc
    ELSE KBatchBoolean(k, op, KBoolean(op, acc, KVecVal(k, elems[from])),
                       elems, from + 1)

\* The one-operand kernel operations: the extent of the result.
KEval(fn, val, arg) ==
    CASE fn \in {"manifold_translate", "manifold_box_translate"} ->
            Shift(val, arg)
      [] fn \in {"manifold_scale", "manifold_box_mul"} ->
            <<val[1] * arg, val[2] * arg>>
      [] fn = "manifold_mirror" -> <<-val[2], -val[1]>>
      [] OTHER -> val

\* ------------------------------------------------------------ the wrappers

Live(kind) == {h \in Handles : wrappers[h] > 0 /\ kernel.heap[h].kind = kind}

Wrap(w, h) == [w EXCEPT ![h] = @ + 1]

Unwrap(w, h) == [w EXCEPT ![h] = @ - 1]

RECURSIVE WrapAll(_, _)
WrapAll(w, hs) ==
    IF hs = {} THEN w
    ELSE LET h == CHOOSE x \in hs : TRUE IN WrapAll(Wrap(w, h), hs \ {h})

Call(op, recv, made, res, ret) ==
    [op |-> op, recv |-> recv, made |-> made, res |-> res, ret |-> ret]

NoRet ==
    [tag |-> "none", n |-> 0, err |-> Error("NoError"), at |-> 0, vec |-> <<>>]

Ret(tag, n) == [NoRet EXCEPT !.tag = tag, !.n = n]

\* Err(e), for the status the kernel reported.
RetErr(status, e) == [NoRet EXCEPT !.tag = "Err", !.n = status, !.err = e]

\* The Option a lookup at index `at` returned.
RetAt(tag, n, at) == [NoRet EXCEPT !.tag = tag, !.n = n, !.at = at]

\* A Vec of wrappers, in order.
RetVec(vec) == [NoRet EXCEPT !.tag = "Vec", !.n = Len(vec), !.vec = vec]

Range(s) == {s[i] : i \in 1..Len(s)}

\* What a public call hands back to the model: the kernel after it, the
\* handles it allocated, the handles it returned wrapped, its plain result.
Out(k, made, res, ret) == [k |-> k, made |-> made, res |-> res, ret |-> ret]

\* A call returns: the wrappers it returned are now held by the caller.
Returns(op, recv, r) ==
    /\ kernel' = r.k
    /\ wrappers' = WrapAll(wrappers, r.res)
    /\ last' = Call(op, recv, r.made, r.res, r.ret)
    /\ UNCHANGED drops

\* A call that only reads returns: nothing was allocated, written or freed.
Reads(r) ==
    /\ kernel' = r.k
    /\ UNCHANGED <<wrappers, drops, last>>

\* A wrapper goes out of scope in the caller.
Dropped(self, k) ==
    /\ kernel' = k
    /\ wrappers' = Unwrap(wrappers, self)
    /\ drops' = [drops EXCEPT ![self] = @ + 1]
    /\ last' = Call("drop", self, {}, {}, NoRet)

\* impl Drop for Manifold
Manifold_drop(k, self) == KDelete(k, self, "manifold")

\* A check that hands the manifold back without asking for its status.
check_error_unchecked(k, manifold, made, status) ==
    Out(k, made, {manifold}, Ret("Ok", status))

\* A check that returns Err without dropping the manifold it was given.
check_error_leaky(k, manifold, made, status) ==
    IF Error_from(status) = Error("NoError")
    THEN Out(KUse(k, manifold), made, {manifold}, Ret("Ok", status))
    ELSE Out(KUse(k, manifold), made, {}, RetErr(status, Error_from(status)))

\* check_error: manifold_status of the new manifold decides between
\* Ok(manifold) and Err(e); on Err the manifold, moved into check_error, is
\* dropped there.
check_error(k, manifold, made, status) ==
    LET k1 == KUse(k, manifold)
        e == Error_from(status)
    IN IF e = Error("NoError")
       THEN Out(k1, made, {manifold}, Ret("Ok", status))
       ELSE Out(Manifold_drop(k1, manifold), made, {}, RetErr(status, e))

\* Manifold::new_tetrahedron
Manifold_new_tetrahedron(k) ==
    LET manifold_ptr == Fresh(k)
    IN Out(KOp(KAlloc(k, "manifold"), manifold_ptr, <<>>, <<0, 1>>),
           {manifold_ptr}, {manifold_ptr}, NoRet)

\* Manifold::new_cuboid_unchecked
Manifold_new_cuboid_unchecked(k, x_size, y_size, z_size) ==
    LET manifold_ptr == Fresh(k)
    IN Out(KOp(KAlloc(k, "manifold"), manifold_ptr, <<>>, KCube(x_size)),
           {manifold_ptr}, {manifold_ptr}, NoRet)

\* Manifold::new_cuboid: the sizes are whatever Into<PositiveF64> gives.
Manifold_new_cuboid(k, x_size, y_size, z_size) ==
    Manifold_new_cuboid_unchecked(k, PositiveNum_get(x_size),
                                  PositiveNum_get(y_size),
                                  PositiveNum_get(z_size))

\* Manifold::new_empty
Manifold_new_empty(k) ==
    LET manifold_ptr == Fresh(k)
    IN Out(KOp(KAlloc(k, "manifold"), manifold_ptr, <<>>, <<0, 0>>),
           {manifold_ptr}, {manifold_ptr}, NoRet)

\* impl TryFrom<&MeshGL> for Manifold, Manifold::from_mesh_gl
Manifold_from_mesh_gl(k, mesh_gl, status) ==
    LET manifold_ptr == Fresh(k)
        k1 == KOp(KAlloc(k, "manifold"), manifold_ptr, <<mesh_gl>>,
                  k.heap[mesh_gl].val)
    IN check_error(k1, manifold_ptr, {manifold_ptr}, status)

\* Manifold::boolean, union, difference, intersection
Manifold_boolean(k, self, other, fn) ==
    LET manifold_ptr == Fresh(k)
    IN Out(KOp(KAlloc(k, "manifold"), manifold_ptr, <<self, other>>,
               KBoolean(fn, k.heap[self].val, k.heap[other].val)),
           {manifold_ptr}, {manifold_ptr}, NoRet)

\* A clone that copies the pointer instead of the object.
Manifold_clone_alias(k, self) == Out(KUse(k, self), {}, {self}, NoRet)

\* impl Clone for Manifold
Manifold_clone(k, self) ==
    LET manifold_ptr == Fresh(k)
    IN Out(KOp(KAlloc(k, "manifold"), manifold_ptr, <<self>>, k.heap[self].val),
           {manifold_ptr}, {manifold_ptr}, NoRet)

\* impl From<BooleanOperation> for ManifoldOpType
ManifoldOpType_from(val) ==
    CASE val = "Add" -> "MANIFOLD_ADD"
      [] val = "Subtract" -> "MANIFOLD_SUBTRACT"
      [] val = "Intersect" -> "MANIFOLD_INTERSECT"

\* One call of manifold_manifold_vec_set, as the kernel saw it.
VecSet(index, manifold) == [index |-> index, manifold |-> manifold]

\* A loop that never moves batch_vec_index on.
RECURSIVE Manifold_batch_boolean_for_stuck(_, _, _, _)
Manifold_batch_boolean_for_stuck(k, batch_vec_ptr, batch_vec_index, others) ==
    IF others = <<>> THEN [k |-> k, sets |-> <<>>]
    ELSE LET r == Manifold_batch_boolean_for_stuck(
                      KManifoldVecSet(k, batch_vec_ptr, batch_vec_index,
                                      Head(others)),
                      batch_vec_ptr, batch_vec_index, Tail(others))
         IN [k |-> r.k,
             sets |-> <<VecSet(batch_vec_index, Head(others))>> \o r.sets]

\* for other in others { manifold_manifold_vec_set(..); batch_vec_index += 1 }
RECURSIVE Manifold_batch_boolean_for(_, _, _, _)
Manifold_batch_boolean_for(k, batch_vec_ptr, batch_vec_index, others) ==
    IF others = <<>> THEN [k |-> k, sets |-> <<>>]
    ELSE LET r == Manifold_batch_boolean_for(
                      KManifoldVecSet(k, batch_vec_ptr, batch_vec_index,
                                      Head(others)),
                      batch_vec_ptr, batch_vec_index + 1, Tail(others))
         IN [k |-> r.k,
             sets |-> <<VecSet(batch_vec_index, Head(others))>> \o r.sets]

\* Manifold::batch_boolean for a slice that is not empty: what it returns,
\* the manifold_manifold_vec_set calls it made and the
\* manifold_batch_boolean calls it made.
Manifold_batch_boolean_some(k, self, others, operation) ==
    LET batch_vec_ptr == Fresh(k)
        k1 == KManifoldVec(KAlloc(k, "manifold_vec"), batch_vec_ptr,
                           Len(others) + 1)
        k2 == KManifoldVecSet(k1, batch_vec_ptr, 0, self)
        loop == Manifold_batch_boolean_for(k2, batch_vec_ptr, 1, others)
        manifold_ptr == Fresh(loop.k)
        elems == loop.k.heap[batch_vec_ptr].val
        op == ManifoldOpType_from(operation)
        k3 == KOp(KAlloc(loop.k, "manifold"), manifold_ptr,
                  <<batch_vec_ptr>>,
                  KBatchBoolean(loop.k, op, KVecVal(loop.k, elems[1]),
                                elems, 2))
    IN [out |-> Out(k3, {batch_vec_ptr, manifold_ptr}, {manifold_ptr}, NoRet),
        sets |-> <<VecSet(0, self)>> \o loop.sets,
        calls |-> <<[ms |-> batch_vec_ptr, elems |-> elems, op |-> op]>>]

\* Manifold::batch_boolean
Manifold_batch_boolean(k, self, others, operation) ==
    IF others = <<>> THEN Manifold_clone(k, self)
    ELSE Manifold_batch_boolean_some(k, self, others, operation).out

\* Manifold::split, split_by_offset_plane
Manifold_split(k, self, operands) ==
    LET first == Fresh(k)
        k1 == KAlloc(k, "manifold")
        second == Fresh(k1)
        k2 == KAlloc(k1, "manifold")
        k3 == KOp(KOp(k2, first, operands, k.heap[self].val),
                  second, <<>>, k.heap[self].val)
    IN Out(k3, {first, second}, {first, second}, NoRet)

\* The kernel function each one-operand Manifold operation calls.
UnaryKernelFn(op) ==
    CASE op = "translate" -> "manifold_translate"
      [] op = "rotate" -> "manifold_translate"
      [] op = "scale" -> "manifold_scale"
      [] op = "mirror" -> "manifold_mirror"
      [] op = "trim_by_offset_plane" -> "manifold_trim_by_plane"
      [] op = "smooth_by_normals" -> "manifold_smooth_by_normals"
      [] op = "smooth_out" -> "manifold_smooth_out"
      [] op = "refine_via_edge_splits" -> "manifold_refine"
      [] op = "refine_to_edge_length" -> "manifold_refine_to_length"
      [] op = "refine_to_tolerance" -> "manifold_refine_to_tolerance"
      [] op = "calculate_curvature" -> "manifold_calculate_curvature"
      [] op = "calculate_normals" -> "manifold_calculate_normals"

ManifoldUnaryOps ==
    {"translate", "rotate", "scale", "mirror", "trim_by_offset_plane",
     "smooth_by_normals", "smooth_out", "refine_via_edge_splits",
     "refine_to_edge_length", "refine_to_tolerance", "calculate_curvature",
     "calculate_normals"}

\* A one-operand operation that also writes its result over the receiver.
Manifold_unary_in_place(k, self, op, arg) ==
    LET manifold_ptr == Fresh(k)
        val == KEval(UnaryKernelFn(op), k.heap[self].val, arg)
    IN Out([KOp(KAlloc(k, "manifold"), manifold_ptr, <<self>>, val)
              EXCEPT !.heap[self].val = val],
           {manifold_ptr}, {manifold_ptr}, NoRet)

\* Manifold::translate, rotate, scale, ...: alloc, kernel call on self, wrap.
Manifold_unary(k, self, op, arg) ==
    LET manifold_ptr == Fresh(k)
    IN Out(KOp(KAlloc(k, "manifold"), manifold_ptr, <<self>>,
               KEval(UnaryKernelFn(op), k.heap[self].val, arg)),
           {manifold_ptr}, {manifold_ptr}, NoRet)

\* Manifold::bounding_box
Manifold_bounding_box(k, self) ==
    LET bounding_box_ptr == Fresh(k)
    IN Out(KOp(KAlloc(k, "box"), bounding_box_ptr, <<self>>, k.heap[self].val),
           {bounding_box_ptr}, {bounding_box_ptr}, NoRet)

\* Manifold::mesh
Manifold_mesh(k, self) ==
    LET mesh_gl_ptr == Fresh(k)
    IN Out(KOp(KAlloc(k, "meshgl"), mesh_gl_ptr, <<self>>, k.heap[self].val),
           {mesh_gl_ptr}, {mesh_gl_ptr}, NoRet)

\* Manifold::is_empty, vertex_count, ..., minimum_gap: kernel reads only.
Wrapper_query(k, operands) == Out(KUseAll(k, operands), {}, {}, NoRet)

\* MeshGL::merge: Some when the kernel returns the pointer it was given.
MeshGL_merge(k, self, merged) ==
    LET duplicate_ptr == Fresh(k)
        k1 == KAlloc(k, "meshgl")
    IN IF merged
       THEN Out(KOp(k1, duplicate_ptr, <<self>>, k.heap[self].val),
                {duplicate_ptr}, {duplicate_ptr}, Ret("Some", 0))
       ELSE Out(KUse(k1, self), {duplicate_ptr}, {}, Ret("None", 0))

\* MeshGL::smooth
MeshGL_smooth(k, self, status) ==
    LET manifold_ptr == Fresh(k)
        k1 == KOp(KAlloc(k, "manifold"), manifold_ptr, <<self>>,
                  k.heap[self].val)
    IN check_error(k1, manifold_ptr, {manifold_ptr}, status)

\* impl Clone for MeshGL
MeshGL_clone(k, self) ==
    LET mesh_gl_ptr == Fresh(k)
    IN Out(KOp(KAlloc(k, "meshgl"), mesh_gl_ptr, <<self>>, k.heap[self].val),
           {mesh_gl_ptr}, {mesh_gl_ptr}, NoRet)

\* impl Drop for MeshGL
MeshGL_drop(k, self) == KDelete(k, self, "meshgl")

\* bounding_box::new
BoundingBox_new(k, min_point, max_point) ==
    LET manifold_box_ptr == Fresh(k)
    IN Out(KOp(KAlloc(k, "box"), manifold_box_ptr, <<>>,
               <<min_point, max_point>>),
           {manifold_box_ptr}, {manifold_box_ptr}, NoRet)

\* BoundingBox::min_point, max_point
BoundingBox_min_point(k, self) ==
    Out(KUse(k, self), {}, {}, Ret("point", k.heap[self].val[1]))

BoundingBox_max_point(k, self) ==
    Out(KUse(k, self), {}, {}, Ret("point", k.heap[self].val[2]))

\* BoundingBox::expand_to_include_point
BoundingBox_expand_to_include_point(k, self, point) ==
    Out(KBoxIncludePt(k, self, point), {}, {}, NoRet)

\* BoundingBox::union
BoundingBox_union(k, self, other) ==
    LET manifold_box_ptr == Fresh(k)
    IN Out(KOp(KAlloc(k, "box"), manifold_box_ptr, <<self, other>>,
               Hull(k.heap[self].val, k.heap[other].val)),
           {manifold_box_ptr}, {manifold_box_ptr}, NoRet)

\* The kernel function each one-operand BoundingBox operation calls.
BoxKernelFn(op) ==
    CASE op = "translate" -> "manifold_box_translate"
      [] op = "multiply" -> "manifold_box_mul"
      [] op = "transform" -> "manifold_box_transform"

BoxUnaryOps == {"translate", "multiply", "transform"}

\* BoundingBox::transform, translate, multiply
BoundingBox_unary(k, self, op, arg) ==
    LET manifold_box_ptr == Fresh(k)
    IN Out(KOp(KAlloc(k, "box"), manifold_box_ptr, <<self>>,
               KEval(BoxKernelFn(op), k.heap[self].val, arg)),
           {manifold_box_ptr}, {manifold_box_ptr}, NoRet)

\* BoundingBox::overlaps_point: the kernel is asked about a box that was only
\* allocated; what it reads there is not defined, so it may answer either way.
BoundingBox_overlaps_point(k, self, point, answer) ==
    LET manifold_box_ptr == Fresh(k)
    IN Out(KUse(KAlloc(k, "box"), manifold_box_ptr), {manifold_box_ptr}, {},
           Ret(IF answer THEN "true" ELSE "false", 0))

\* impl Drop for BoundingBox
BoundingBox_drop(k, self) == KDelete(k, self, "box")

\* SimplePolygon::new_from_points
SimplePolygon_new_from_points(k, points) ==
    LET polygon_ptr == Fresh(k)
    IN Out(KOp(KAlloc(k, "simple_polygon"), polygon_ptr, <<>>, points),
           {polygon_ptr}, {polygon_ptr}, NoRet)

\* SimplePolygon::point_count
SimplePolygon_point_count(k, self) == Len(k.heap[self].val)

\* A lookup whose bound check lets the index one past the end through.
SimplePolygon_get_point_past_end(k, self, index) ==
    IF index > SimplePolygon_point_count(k, self)
    THEN Out(KUse(k, self), {}, {}, RetAt("None", 0, index))
    ELSE Out(KElem(k, self, index), {}, {},
             RetAt("Some",
                   IF index < Len(k.heap[self].val)
                   THEN k.heap[self].val[index + 1] ELSE 0, index))

\* SimplePolygon::get_point
SimplePolygon_get_point(k, self, index) ==
    IF index >= SimplePolygon_point_count(k, self)
    THEN Out(KUse(k, self), {}, {}, RetAt("None", 0, index))
    ELSE Out(KElem(k, self, index), {}, {},
             RetAt("Some", k.heap[self].val[index + 1], index))

\* impl Drop for SimplePolygon
SimplePolygon_drop(k, self) == KDelete(k, self, "simple_polygon")

\* The closure |p| p.ptr() of from_simple_polygons takes each SimplePolygon
\* by value: it is dropped when the closure returns its pointer.
RECURSIVE MapPtr(_, _)
MapPtr(k, simple_polygons) ==
    IF simple_polygons = <<>> THEN k
    ELSE MapPtr(SimplePolygon_drop(k, Head(simple_polygons)),
                Tail(simple_polygons))

\* Polygons::from_simple_polygons: manifold_polygons then reads the pointers
\* collected; content is what the kernel found behind them.
Polygons_from_simple_polygons(k, simple_polygons, content) ==
    LET k1 == MapPtr(k, simple_polygons)
        polygons_ptr == Fresh(k1)
    IN Out(KOp(KAlloc(k1, "polygons"), polygons_ptr, simple_polygons, content),
           {polygons_ptr}, {polygons_ptr}, NoRet)

\* Polygons::extrude, Polygons::revolve
Polygons_extrude(k, self, status) ==
    LET manifold_ptr == Fresh(k)
        k1 == KOp(KAlloc(k, "manifold"), manifold_ptr, <<self>>, <<0, 1>>)
    IN check_error(k1, manifold_ptr, {manifold_ptr}, status)

\* Polygons::cross_section
Polygons_cross_section(k, self) ==
    LET cross_section_ptr == Fresh(k)
    IN Out(KOp(KAlloc(k, "cross_section"), cross_section_ptr, <<self>>, NoVal),
           {cross_section_ptr}, {cross_section_ptr}, NoRet)

\* Polygons::count
Polygons_count(k, self) == Len(k.heap[self].val)

\* Polygons::get
Polygons_get(k, self, index) ==
    IF index >= Polygons_count(k, self)
    THEN Out(KUse(k, self), {}, {}, Ret("None", index))
    ELSE LET simple_polygon_ptr == Fresh(k)
         IN Out(KOp(KAlloc(KElem(k, self, index), "simple_polygon"),
                    simple_polygon_ptr, <<self>>, k.heap[self].val[index + 1]),
                {simple_polygon_ptr}, {simple_polygon_ptr}, Ret("Some", index))

\* for i in 0..self.count() { simple_polygons.push(self.get(i).unwrap()) }
\* Unwrapping None panics: the vector built so far is dropped on the way out.
RECURSIVE Polygons_as_vec_for(_, _, _, _, _)
Polygons_as_vec_for(k, self, i, count, simple_polygons) ==
    IF i >= count
    THEN Out(k, Range(simple_polygons), Range(simple_polygons),
             RetVec(simple_polygons))
    ELSE LET r == Polygons_get(k, self, i)
         IN IF r.ret.tag = "None"
            THEN Out(MapPtr(r.k, simple_polygons), Range(simple_polygons), {},
                     Ret("panic", i))
            ELSE Polygons_as_vec_for(
                     r.k, self, i + 1, count,
                     Append(simple_polygons, CHOOSE h \in r.res : TRUE))

\* A conversion that starts at the second element.
Polygons_as_vec_skip(k, self) ==
    Polygons_as_vec_for(k, self, 1, Polygons_count(k, self), <<>>)

\* Polygons::as_vec
Polygons_as_vec(k, self) ==
    Polygons_as_vec_for(k, self, 0, Polygons_count(k, self), <<>>)

\* impl Drop for Polygons
Polygons_drop(k, self) == KDelete(k, self, "polygons")

\* CrossSection has no Drop implementation: the wrapper just goes away.
CrossSection_drop(k, self) == k

\* Manifold::new_sphere_unchecked
Manifold_new_sphere_unchecked(k, status) ==
    LET manifold_ptr == Fresh(k)
        k1 == KOp(KAlloc(k, "manifold"), manifold_ptr, <<>>, <<0, 1>>)
    IN check_error(k1, manifold_ptr, {manifold_ptr}, status)

\* --------------------------------------------------------------- the caller

\* Sequences of n distinct elements of S.
Distinct(S, n) ==
    {s \in [1..n -> S] : \A i, j \in 1..n : i # j => s[i] # s[j]}

\* What Into<PositiveF64> accepts: a PositiveF64 (made by new or try_from),
\* or a u8, u16 or u32 through From.
IntoPositiveF64 ==
    {r.val : r \in {x \in {PositiveNum_new(Num(v)) : v \in -MaxCoord..MaxCoord} :
                      x.ok}}
    \cup {PositiveF64_from(u) : u \in {x \in 0..MaxCoord : x * Den <= MaxCoord}}

\* Status codes the kernel may report for a new manifold.
Statuses ==
    {ManifoldError_MANIFOLD_NO_ERROR, ManifoldError_MANIFOLD_NOT_MANIFOLD,
     ManifoldError_MANIFOLD_INVALID_CONSTRUCTION + 1}

Points == 0..MaxCoord

PointLists == {[i \in 1..n |-> i - 1] : n \in 0..MaxPoints}

NewTetrahedron ==
    /\ HasFree(kernel, 1)
    /\ Returns("new_tetrahedron", NoHandle, Manifold_new_tetrahedron(kernel))
    /\ UNCHANGED <<sc, cb, mx>>

\* Geometry is observed on one axis: the caller asks for cubes.
NewCuboid ==
    \E x_size \in IntoPositiveF64 :
        /\ HasFree(kernel, 1)
        /\ Returns("new_cuboid", NoHandle,
                   Manifold_new_cuboid(kernel, x_size, x_size, x_size))
        /\ UNCHANGED <<sc, cb, mx>>

NewEmpty ==
    /\ HasFree(kernel, 1)
    /\ Returns("new_empty", NoHandle, Manifold_new_empty(kernel))
    /\ UNCHANGED <<sc, cb, mx>>

NewSphereUnchecked ==
    \E status \in Statuses :
        /\ HasFree(kernel, 1)
        /\ Returns("new_sphere_unchecked", NoHandle,
                   Manifold_new_sphere_unchecked(kernel, status))
        /\ UNCHANGED <<sc, cb, mx>>

FromMeshGl ==
    \E mesh_gl \in Live("meshgl"), status \in Statuses :
        /\ HasFree(kernel, 1)
        /\ Returns("from_mesh_gl", NoHandle,
                   Manifold_from_mesh_gl(kernel, mesh_gl, status))
        /\ UNCHANGED <<sc, cb, mx>>

Boolean ==
    \E self, other \in Live("manifold"),
       fn \in {"manifold_union", "manifold_difference", "manifold_intersection",
               "MANIFOLD_ADD", "MANIFOLD_SUBTRACT", "MANIFOLD_INTERSECT"} :
        /\ HasFree(kernel, 1)
        /\ Returns("boolean", self,
                   Manifold_boolean(kernel, self, other, fn))
        /\ UNCHANGED <<sc, cb, mx>>

BatchBoolean ==
    \E self \in Live("manifold"), n \in 0..MaxOthers :
        \E others \in Distinct(Live("manifold"), n) :
            /\ HasFree(kernel, IF n = 0 THEN 1 ELSE 2)
            /\ Returns("batch_boolean", self,
                       Manifold_batch_boolean(kernel, self, others,
                                              "Subtract"))
            /\ UNCHANGED <<sc, cb, mx>>

Split ==
    \E self \in Live("manifold") :
        /\ HasFree(kernel, 2)
        /\ \/ \E other \in Live("manifold") :
                 Returns("split", self,
                         Manifold_split(kernel, self, <<self, other>>))
           \/ Returns("split_by_offset_plane", self,
                      Manifold_split(kernel, self, <<self>>))
        /\ UNCHANGED <<sc, cb, mx>>

\* The number Manifold::rotate reads from its Rotation: rotation.x.get().
RotationX(arg) ==
    NormalizedAngle_as_degrees(NormalizedAngle_from_degrees(Num(arg))).v

ManifoldUnary ==
    \E self \in Live("manifold"), op \in ManifoldUnaryOps, arg \in Coords :
        LET a == IF op = "rotate" THEN RotationX(arg) ELSE arg
            r == Manifold_unary(kernel, self, op, a)
        IN /\ HasFree(kernel, 1)
           /\ InCoords(r.k.heap[CHOOSE h \in r.res : TRUE].val)
           /\ Returns(IF op \in {"translate", "rotate"} THEN op ELSE "unary",
                      self, r)
           /\ UNCHANGED <<sc, cb, mx>>

BoundingBoxOf ==
    \E self \in Live("manifold") :
        /\ HasFree(kernel, 1)
        /\ Returns("bounding_box", self,
                   Manifold_bounding_box(kernel, self))
        /\ UNCHANGED <<sc, cb, mx>>

Mesh ==
    \E self \in Live("manifold") :
        /\ HasFree(kernel, 1)
        /\ Returns("mesh", self, Manifold_mesh(kernel, self))
        /\ UNCHANGED <<sc, cb, mx>>

\* is_empty, vertex_count, ..., minimum_gap, contains_bounding_box, counts.
Query ==
    \E self \in UNION {Live(kd) : kd \in Kinds \ {"cross_section"}} :
        \/ Reads(Wrapper_query(kernel, <<self>>)) /\ UNCHANGED <<sc, cb, mx>>
        \/ \E other \in Live(kernel.heap[self].kind) \ {self} :
               /\ kernel.heap[self].kind \in {"manifold", "box"}
               /\ Reads(Wrapper_query(kernel, <<self, other>>))
               /\ UNCHANGED <<sc, cb, mx>>

CloneManifold ==
    \E self \in Live("manifold") :
        /\ HasFree(kernel, 1)
        /\ Returns("clone", self, Manifold_clone(kernel, self))
        /\ UNCHANGED <<sc, cb, mx>>

DropManifold ==
    \E self \in Live("manifold") :
        Dropped(self, Manifold_drop(kernel, self)) /\ UNCHANGED <<sc, cb, mx>>

Merge ==
    \E self \in Live("meshgl"), merged \in BOOLEAN :
        /\ HasFree(kernel, 1)
        /\ Returns("merge", self, MeshGL_merge(kernel, self, merged))
        /\ UNCHANGED <<sc, cb, mx>>

Smooth ==
    \E self \in Live("meshgl"), status \in Statuses :
        /\ HasFree(kernel, 1)
        /\ Returns("smooth", self, MeshGL_smooth(kernel, self, status))
        /\ UNCHANGED <<sc, cb, mx>>

CloneMeshGL ==
    \E self \in Live("meshgl") :
        /\ HasFree(kernel, 1)
        /\ Returns("clone", self, MeshGL_clone(kernel, self))
        /\ UNCHANGED <<sc, cb, mx>>

DropMeshGL ==
    \E self \in Live("meshgl") :
        Dropped(self, MeshGL_drop(kernel, self)) /\ UNCHANGED <<sc, cb, mx>>

NewBox ==
    \E min_point, max_point \in Points :
        /\ min_point <= max_point
        /\ HasFree(kernel, 1)
        /\ Returns("new", NoHandle,
                   BoundingBox_new(kernel, min_point, max_point))
        /\ UNCHANGED <<sc, cb, mx>>

BoxMinMax ==
    \E self \in Live("box") :
        /\ \/ Reads(BoundingBox_min_point(kernel, self))
           \/ Reads(BoundingBox_max_point(kernel, self))
        /\ UNCHANGED <<sc, cb, mx>>

ExpandToIncludePoint ==
    \E self \in Live("box"), point \in Points :
        /\ Returns("expand_to_include_point", self,
                   BoundingBox_expand_to_include_point(kernel, self, point))
        /\ UNCHANGED <<sc, cb, mx>>

BoxUnion ==
    \E self, other \in Live("box") :
        /\ HasFree(kernel, 1)
        /\ Returns("union", self,
                   BoundingBox_union(kernel, self, other))
        /\ UNCHANGED <<sc, cb, mx>>

BoxUnary ==
    \E self \in Live("box"), op \in BoxUnaryOps, arg \in Coords :
        LET r == BoundingBox_unary(kernel, self, op, arg)
        IN /\ HasFree(kernel, 1)
           /\ InCoords(r.k.heap[CHOOSE h \in r.res : TRUE].val)
           /\ Returns(IF op = "translate" THEN op ELSE "unary", self, r)
           /\ UNCHANGED <<sc, cb, mx>>

OverlapsPoint ==
    \E self \in Live("box"), point \in Points, answer \in BOOLEAN :
        /\ HasFree(kernel, 1)
        /\ Returns("overlaps_point", self,
                   BoundingBox_overlaps_point(kernel, self, point, answer))
        /\ UNCHANGED <<sc, cb, mx>>

DropBox ==
    \E self \in Live("box") :
        Dropped(self, BoundingBox_drop(kernel, self)) /\ UNCHANGED <<sc, cb, mx>>

NewSimplePolygon ==
    \E points \in PointLists :
        /\ HasFree(kernel, 1)
        /\ Returns("new_from_points", NoHandle,
                   SimplePolygon_new_from_points(kernel, points))
        /\ UNCHANGED <<sc, cb, mx>>

DropSimplePolygon ==
    \E self \in Live("simple_polygon") :
        Dropped(self, SimplePolygon_drop(kernel, self)) /\ UNCHANGED <<sc, cb, mx>>

\* The Vec<SimplePolygon> is moved into the call: its wrappers are gone from
\* the caller, and the call itself drops each of them.
FromSimplePolygons ==
    \E n \in 0..MaxPolygons :
        \E simple_polygons \in Distinct(Live("simple_polygon"), n) :
            \E content \in {[i \in 1..n |-> kernel.heap[simple_polygons[i]].val],
                            [i \in 1..n |-> <<>>]} :
                LET r == Polygons_from_simple_polygons(kernel, simple_polygons,
                                                       content)
                    moved == {simple_polygons[i] : i \in 1..n}
                IN /\ HasFree(kernel, 1)
                   /\ kernel' = r.k
                   /\ wrappers' = [h \in Handles |->
                                     IF h \in moved THEN wrappers[h] - 1
                                     ELSE IF h \in r.res THEN wrappers[h] + 1
                                     ELSE wrappers[h]]
                   /\ drops' = [h \in Handles |->
                                  IF h \in moved THEN drops[h] + 1 ELSE drops[h]]
                   /\ last' = Call("from_simple_polygons", NoHandle, r.made,
                                   r.res, r.ret)
                   /\ UNCHANGED <<sc, cb, mx>>

Extrude ==
    \E self \in Live("polygons"), status \in Statuses,
       op \in {"extrude", "revolve"} :
        /\ HasFree(kernel, 1)
        /\ Returns("extrude", self, Polygons_extrude(kernel, self, status))
        /\ UNCHANGED <<sc, cb, mx>>

CrossSectionOf ==
    \E self \in Live("polygons") :
        /\ HasFree(kernel, 1)
        /\ Returns("cross_section", self,
                   Polygons_cross_section(kernel, self))
        /\ UNCHANGED <<sc, cb, mx>>

PolygonsGet ==
    \E self \in Live("polygons"), index \in 0..MaxPolygons :
        /\ HasFree(kernel, 1)
        /\ Returns("get", self, Polygons_get(kernel, self, index))
        /\ UNCHANGED <<sc, cb, mx>>

PolygonsAsVec ==
    \E self \in Live("polygons") :
        /\ HasFree(kernel, Polygons_count(kernel, self))
        /\ Returns("as_vec", self, Polygons_as_vec(kernel, self))
        /\ UNCHANGED <<sc, cb, mx>>

DropPolygons ==
    \E self \in Live("polygons") :
        Dropped(self, Polygons_drop(kernel, self)) /\ UNCHANGED <<sc, cb, mx>>

DropCrossSection ==
    \E self \in Live("cross_section") :
        Dropped(self, CrossSection_drop(kernel, self)) /\ UNCHANGED <<sc, cb, mx>>

GetPoint ==
    \E self \in Live("simple_polygon"), index \in 0..MaxPoints :
        /\ Returns("get_point", self,
                   SimplePolygon_get_point(kernel, self, index))
        /\ UNCHANGED <<sc, cb, mx>>

\* ----------------------------------------------- calls on validated scalars

\* f64 arguments: every multiple of 1/Den in [-MaxDeg, MaxDeg], and NaN.
F64Inputs == {Num(v) : v \in (-(MaxDeg * Den))..(MaxDeg * Den)} \cup {NaN}

\* i8 / i16 / i32 arguments.
SignedInputs == (-MaxDeg)..MaxDeg

\* u8 / u16 / u32 arguments.
UnsignedInputs == 0..MaxDeg

ScCall(op, arg, res) == [op |-> op, arg |-> arg, res |-> res]

\* The argument a caller has at hand, before the call on it is made.
ScInput(arg) == ScCall("input", arg, Okay([inner |-> Zero]))

\* The argument at hand read as an f64, a signed or an unsigned integer.
HasF64 == sc.op = "input"

HasSigned == sc.op = "input" /\ ~sc.arg.nan /\ sc.arg.v \in SignedInputs

HasUnsigned == sc.op = "input" /\ ~sc.arg.nan /\ sc.arg.v \in UnsignedInputs

PositiveNew ==
    /\ HasF64
    /\ sc' = ScCall("PositiveNum::new", sc.arg, PositiveNum_new(sc.arg))
    /\ UNCHANGED <<hvars, cb, mx>>

PositiveFrom ==
    /\ HasUnsigned
    /\ \/ sc' = ScCall("PositiveF64::from", F64(sc.arg.v),
                       Okay(PositiveF64_from(sc.arg.v)))
       \/ sc' = ScCall("PositiveI32::from", I32(sc.arg.v),
                       Okay(PositiveI32_from(sc.arg.v)))
    /\ UNCHANGED <<hvars, cb, mx>>

PositiveTryFrom ==
    /\ HasSigned
    /\ \/ sc' = ScCall("PositiveF64::try_from", F64(sc.arg.v),
                       PositiveF64_try_from(sc.arg.v))
       \/ sc' = ScCall("PositiveI32::try_from", I32(sc.arg.v),
                       PositiveI32_try_from(sc.arg.v))
    /\ UNCHANGED <<hvars, cb, mx>>

NonNegativeNew ==
    /\ HasF64
    /\ sc' = ScCall("NonNegativeNum::new", sc.arg, NonNegativeNum_new(sc.arg))
    /\ UNCHANGED <<hvars, cb, mx>>

NonNegativeFrom ==
    /\ HasUnsigned
    /\ \/ sc' = ScCall("NonNegativeF64::from", F64(sc.arg.v),
                       Okay(NonNegativeF64_from(sc.arg.v)))
       \/ sc' = ScCall("NonNegativeI32::from", I32(sc.arg.v),
                       Okay(NonNegativeI32_from(sc.arg.v)))
    /\ UNCHANGED <<hvars, cb, mx>>

NonNegativeTryFrom ==
    /\ HasSigned
    /\ \/ sc' = ScCall("NonNegativeF64::try_from", F64(sc.arg.v),
                       NonNegativeF64_try_from(sc.arg.v))
       \/ sc' = ScCall("NonNegativeI32::try_from", I32(sc.arg.v),
                       NonNegativeI32_try_from(sc.arg.v))
    /\ UNCHANGED <<hvars, cb, mx>>

FromDegrees ==
    /\ HasF64
    /\ sc' = ScCall("NormalizedAngle::from_degrees", sc.arg,
                    Okay(NormalizedAngle_from_degrees(sc.arg)))
    /\ UNCHANGED <<hvars, cb, mx>>

MinimumSmoothnessNew ==
    /\ HasF64
    /\ sc' = ScCall("MinimumSmoothness::new", sc.arg,
                    MinimumSmoothness_new(sc.arg))
    /\ UNCHANGED <<hvars, cb, mx>>

\* What Into<PositiveI32> gives for the integer at hand: a PositiveI32 made by
\* try_from, or the integer itself through From when it is unsigned.
IntoPositiveI32 ==
    {r.val : r \in {x \in {PositiveI32_try_from(sc.arg.v)} : x.ok}}
    \cup (IF sc.arg.v \in UnsignedInputs
          THEN {PositiveI32_from(sc.arg.v)} ELSE {})

EdgeSplitCountNew ==
    /\ HasSigned
    /\ \E num \in IntoPositiveI32 :
           sc' = ScCall("EdgeSplitCount::new", I32(sc.arg.v),
                        EdgeSplitCount_new(num))
    /\ UNCHANGED <<hvars, cb, mx>>

ErrorFrom ==
    /\ HasUnsigned
    /\ sc' = ScCall("Error::from", I32(sc.arg.v), Okay(Error_from(sc.arg.v)))
    /\ UNCHANGED <<hvars, cb, mx>>

\* ----------------------------------------------------- the callback bridge

\* The null pointer.
Null == 0

\* The caller keeps its callback objects at these addresses.
CallerAddrs == {1, 2}

\* The frame of the public call keeps its parameter here.
ParamAddr == 3

\* The caller keeps its MyPropertyReplacer here.
ReplacerAddr == 4

\* The frame of replace_vertex_properties keeps its pinned `ctx` and its
\* pinned ReplaceVertexPropertiesCCtx here.
CtxAddr == 5

CCtxAddr == 6

\* The kernel keeps the new and the old property row of a vertex here.
NewPropAddr == 7

OldPropAddr == 8

\* Where the empty array literal &[0.0; 0] lives.
StaticAddr == 9

\* The caller keeps a warp object whose warp_vertex can panic here.
PanickingAddr == 10

\* The objects a caller passes to Manifold::warp.
WarpAddrs == CallerAddrs \cup {PanickingAddr}

Addrs ==
    WarpAddrs \cup {ParamAddr, ReplacerAddr, CtxAddr, CCtxAddr, NewPropAddr,
                    OldPropAddr, StaticAddr}

\* types::Vec3::new
Vec3_new(x, y, z) == [x |-> x, y |-> y, z |-> z]

\* Point3::new
Point3_new(x, y, z) == [x |-> x, y |-> y, z |-> z]

\* impl From<Point3> for ManifoldVec3
ManifoldVec3_from(value) == [x |-> value.x, y |-> value.y, z |-> value.z]

\* What a memory cell holds: nothing, a TranslationWarp, or a Pin<&T>.
NoCell == [type |-> "none", translation |-> Vec3_new(0, 0, 0), ptr |-> Null]

\* TranslationWarp { translation }
TranslationWarp(translation) ==
    [NoCell EXCEPT !.type = "TranslationWarp", !.translation = translation]

\* A caller's warp type that translates like TranslationWarp and asserts
\* that the vertex it is given has no positive x.
PanickingWarp(translation) ==
    [NoCell EXCEPT !.type = "PanickingWarp", !.translation = translation]

\* Pin::new(&object)
Pin_new(object) == [NoCell EXCEPT !.type = "Pin", !.ptr = object]

\* The caller's objects: one translates by (1.0, 1.0, 1.0), the other by
\* (1.0, 2.0, 3.0).
CallerMem ==
    [a \in Addrs |->
        IF a = 1 THEN TranslationWarp(Vec3_new(Den, Den, Den))
        ELSE IF a = 2 THEN TranslationWarp(Vec3_new(Den, 2 * Den, 3 * Den))
        ELSE IF a = PanickingAddr THEN PanickingWarp(Vec3_new(Den, Den, Den))
        ELSE IF a = ReplacerAddr THEN [type |-> "MyPropertyReplacer"]
        ELSE NoCell]

\* impl WarpVertex for TranslationWarp
TranslationWarp_warp_vertex(self, vertex) ==
    Point3_new(vertex.x + self.translation.x,
               vertex.y + self.translation.y,
               vertex.z + self.translation.z)

\* Whether the warp_vertex of the caller's object panics for this vertex.
WarpVertex_panics(self, vertex) ==
    self.type = "PanickingWarp" /\ vertex.x > 0

\* A boundary that lets the panic travel on into the frames of its caller.
extern_C_unwind_fn_exit(panic) == IF panic THEN "unwind" ELSE "return"

\* How control leaves a function defined as `extern "C"`: a panic that
\* reaches its frame cannot leave it, the process aborts there.
extern_C_fn_exit(panic) == IF panic THEN "abort" ELSE "return"

\* The extern "C" function #[manifold::warp] generates for TranslationWarp.
manifold3d_manifold_warp_fn(mem, x, y, z, ctx) ==
    LET warp == mem[ctx]
        result == TranslationWarp_warp_vertex(warp, Point3_new(x, y, z))
    IN ManifoldVec3_from(result)

\* The context pointer taken from the parameter itself, not from what it
\* points at.
Manifold_warp_ptr_of_param(mem, warp) == warp

\* let warp_ptr = &raw const *warp;
Manifold_warp_ptr(mem, warp) == mem[warp].ptr

\* The vertices the kernel holds for a manifold of extent <<lo, hi>>: the
\* corners of a tetrahedron.
KVertices(val) ==
    <<Vec3_new(val[1], val[1], val[2]), Vec3_new(val[1], val[2], val[1]),
      Vec3_new(val[2], val[1], val[1]), Vec3_new(val[2], val[2], val[2])>>

Min(S) == CHOOSE m \in S : \A n \in S : m <= n

Max(S) == CHOOSE m \in S : \A n \in S : m >= n

\* manifold_bounding_box, manifold_box_min, manifold_box_max of vertices.
BoxMin(verts) ==
    Point3_new(Min({verts[i].x : i \in 1..Len(verts)}),
               Min({verts[i].y : i \in 1..Len(verts)}),
               Min({verts[i].z : i \in 1..Len(verts)}))

BoxMax(verts) ==
    Point3_new(Max({verts[i].x : i \in 1..Len(verts)}),
               Max({verts[i].y : i \in 1..Len(verts)}),
               Max({verts[i].z : i \in 1..Len(verts)}))

\* ---- property replacement

\* value as i32 for a usize value: the low I32Bits bits, read as signed.
AsI32(value) ==
    LET m == value % (2 ^ I32Bits)
    IN IF m >= 2 ^ (I32Bits - 1) THEN m - 2 ^ I32Bits ELSE m

\* Manifold::properties_per_vertex_count
Manifold_properties_per_vertex_count(k, self) == k.props[self]

\* MyPropertyReplacerCtx { vertex_count }
MyPropertyReplacerCtx(vertex_count) ==
    [type |-> "MyPropertyReplacerCtx", vertex_count |-> vertex_count]

\* impl ReplaceVertexProperties for MyPropertyReplacer: new_ctx
MyPropertyReplacer_new_ctx == MyPropertyReplacerCtx(0)

\* A context record whose ctx_ptr names the callback object, not the pinned
\* context.
ReplaceVertexPropertiesCCtx_without_ctx(manage_vertex_properties_ptr, old_properties_per_vertex_count, new_properties_per_vertex_count, ctx_ptr) ==
    [type |-> "ReplaceVertexPropertiesCCtx",
     manage_vertex_properties_ptr |-> manage_vertex_properties_ptr,
     old_properties_per_vertex_count |-> old_properties_per_vertex_count,
     new_properties_per_vertex_count |-> new_properties_per_vertex_count,
     ctx_ptr |-> manage_vertex_properties_ptr]

\* struct ReplaceVertexPropertiesCCtx
ReplaceVertexPropertiesCCtx(manage_vertex_properties_ptr, old_properties_per_vertex_count, new_properties_per_vertex_count, ctx_ptr) ==
    [type |-> "ReplaceVertexPropertiesCCtx",
     manage_vertex_properties_ptr |-> manage_vertex_properties_ptr,
     old_properties_per_vertex_count |-> old_properties_per_vertex_count,
     new_properties_per_vertex_count |-> new_properties_per_vertex_count,
     ctx_ptr |-> ctx_ptr]

\* A row of len f64 the kernel allocated; dealloc says who gave it back to
\* an allocator.
KBuffer(len) == [type |-> "f64s", len |-> len, dealloc |-> "nobody"]

\* std::slice::from_raw_parts(data, len)
slice_from_raw_parts(data, len) == [data |-> data, len |-> len]

\* &[0.0; 0]
EmptySlice == [data |-> StaticAddr, len |-> 0]

\* The old properties taken from the pointer without a look at it.
old_properties_unchecked(old_prop, c_ctx) ==
    slice_from_raw_parts(old_prop, c_ctx.old_properties_per_vertex_count)

\* let old_properties = if old_prop.is_null() { &[0.0; 0] } else { .. };
old_properties(old_prop, c_ctx) ==
    IF old_prop = Null
    THEN EmptySlice
    ELSE slice_from_raw_parts(old_prop,
                              c_ctx.old_properties_per_vertex_count)

\* Vec::from_raw_parts(ptr, length, capacity)
Vec_from_raw_parts(ptr, length, capacity) ==
    [ptr |-> ptr, len |-> length, cap |-> capacity]

\* Vec::as_mut_slice
Vec_as_mut_slice(vec) == [data |-> vec.ptr, len |-> vec.len]

\* impl Drop for Vec: the buffer goes back to the Rust allocator.
Vec_drop(mem, vec) ==
    IF vec.cap = 0 THEN mem ELSE [mem EXCEPT ![vec.ptr].dealloc = "bridge"]

\* std::mem::forget(vec): the destructor never runs.
mem_forget(mem, vec) == mem

\* impl ReplaceVertexProperties for MyPropertyReplacer: the callback counts
\* the vertex, copies the old properties and writes three more; an index past
\* the end of new_properties panics.
MyPropertyReplacer_replace_vertex_properties(mem, ctx, old, new) ==
    [mem |-> [mem EXCEPT ![ctx] = MyPropertyReplacerCtx(@.vertex_count + 1)],
     panic |-> new.len < old.len + 3]

\* A panic of the callback reaches the frame of the trampoline, an
\* extern "C" function, before mem::forget has run. The panic cannot leave
\* that frame: the process aborts. Whether the frame's locals are dropped
\* first is the toolchain's choice (runs_drop): compilers that build this crate
\* do either.
trampoline_panic(mem, new_properties, runs_drop) ==
    IF runs_drop THEN Vec_drop(mem, new_properties) ELSE mem

\* One run of the trampoline, for the arguments the kernel called it with.
NoInvocation ==
    [new_prop |-> Null, old_prop |-> Null, object |-> Null, ctx |-> Null,
     old_properties |-> EmptySlice, new_properties |-> EmptySlice,
     recorded |-> 0, panic |-> FALSE, exit |-> "none"]

\* The extern "C" function #[manifold::manage_vertex_properties] generates
\* for MyPropertyReplacer.
manifold3d_manifold_replace_vertex_properties_fn(mem, new_prop, position, old_prop, ctx, runs_drop) ==
    LET c_ctx == mem[ctx]
        manage_vertex_properties == c_ctx.manage_vertex_properties_ptr
        manage_vertex_properties_ctx == c_ctx.ctx_ptr
        old == old_properties(old_prop, c_ctx)
        new_properties ==
            Vec_from_raw_parts(new_prop,
                               c_ctx.new_properties_per_vertex_count,
                               c_ctx.new_properties_per_vertex_count)
        r == MyPropertyReplacer_replace_vertex_properties(
                 mem, manage_vertex_properties_ctx, old,
                 Vec_as_mut_slice(new_properties))
        inv == [new_prop |-> new_prop, old_prop |-> old_prop,
                object |-> manage_vertex_properties,
                ctx |-> manage_vertex_properties_ctx,
                old_properties |-> old,
                new_properties |-> Vec_as_mut_slice(new_properties),
                recorded |-> c_ctx.old_properties_per_vertex_count,
                panic |-> r.panic,
                exit |-> extern_C_fn_exit(r.panic)]
    IN IF r.panic
       THEN [mem |-> trampoline_panic(r.mem, new_properties, runs_drop),
             inv |-> inv]
       ELSE [mem |-> mem_forget(r.mem, new_properties), inv |-> inv]

\* The counts the caller's new_vertex_properties_count returns: none, too
\* few for the callback, enough, and two that do not fit an i32.
Counts == {0, 2, 3, 2 ^ (I32Bits - 1), 2 ^ I32Bits + 3}

\* The old-properties pointer manifold_set_properties passes for a vertex.
KOldProp(old_count) == {Null} \cup (IF old_count > 0 THEN {OldPropAddr} ELSE {})

\* No kernel call with a callback is in flight and none has been made.
BridgeIdle ==
    [pc |-> "idle", op |-> "none", mem |-> CallerMem, object |-> Null,
     ctx |-> Null, self |-> NoHandle, manifold_ptr |-> NoHandle,
     verts |-> <<>>, i |-> 0, out |-> <<>>, old_count |-> 0, new_count |-> 0,
     num_prop |-> 0, inv |-> NoInvocation]

\* Manifold::warp, up to the point where manifold_warp starts to run.
WarpCall ==
    \E self \in Live("manifold"), object \in WarpAddrs :
        LET mem == [CallerMem EXCEPT ![ParamAddr] = Pin_new(object)]
        IN /\ cb.pc = "idle"
           /\ HasFree(kernel, 1)
           /\ kernel' = KUse(KAlloc(kernel, "manifold"), self)
           /\ cb' = [BridgeIdle EXCEPT
                        !.pc = "warp", !.op = "warp", !.mem = mem,
                        !.object = object,
                        !.ctx = Manifold_warp_ptr(mem, ParamAddr),
                        !.self = self, !.manifold_ptr = Fresh(kernel),
                        !.verts = KVertices(kernel.heap[self].val)]
           /\ UNCHANGED <<wrappers, drops, last, sc, mx>>

\* manifold_warp calls the function pointer for the next vertex.
WarpTrampoline ==
    /\ cb.pc = "warp"
    /\ cb.i < Len(cb.verts)
    /\ LET v == cb.verts[cb.i + 1]
           panic == WarpVertex_panics(cb.mem[cb.ctx],
                                      Point3_new(v.x, v.y, v.z))
           exit == extern_C_fn_exit(panic)
           inv == [NoInvocation EXCEPT !.object = cb.ctx, !.panic = panic,
                                       !.exit = exit]
       IN IF exit = "return"
          THEN cb' = [cb EXCEPT
                         !.i = @ + 1, !.inv = inv,
                         !.out = Append(@, manifold3d_manifold_warp_fn(
                                               cb.mem, v.x, v.y, v.z, cb.ctx))]
          ELSE cb' = [cb EXCEPT
                         !.i = @ + 1, !.inv = inv,
                         !.pc = IF exit = "abort" THEN "aborted" ELSE "unwound"]
    /\ UNCHANGED <<hvars, sc, mx>>

\* manifold_warp returns; Manifold::warp wraps the result.
WarpReturn ==
    /\ cb.pc = "warp"
    /\ cb.i = Len(cb.verts)
    /\ Returns("warp", cb.self,
               Out(KOp(kernel, cb.manifold_ptr, <<>>,
                       <<BoxMin(cb.out).x, BoxMax(cb.out).x>>),
                   {cb.manifold_ptr}, {cb.manifold_ptr}, NoRet))
    /\ cb' = [cb EXCEPT !.pc = "idle", !.mem = CallerMem]
    /\ UNCHANGED <<sc, mx>>

\* Manifold::replace_vertex_properties, up to the point where
\* manifold_set_properties starts to run.
ReplaceCall ==
    \E self \in Live("manifold"), count \in Counts :
        LET param == [CallerMem EXCEPT ![ParamAddr] = Pin_new(ReplacerAddr)]
            old_properties_per_vertex_count ==
                Manifold_properties_per_vertex_count(kernel, self)
            new_properties_per_vertex_count == count
            mem == [param EXCEPT
                       ![CtxAddr] = MyPropertyReplacer_new_ctx,
                       ![CCtxAddr] = ReplaceVertexPropertiesCCtx(
                           param[ParamAddr].ptr,
                           old_properties_per_vertex_count,
                           new_properties_per_vertex_count, CtxAddr)]
        IN /\ cb.pc = "idle"
           /\ HasFree(kernel, 1)
           /\ kernel' = KUse(KAlloc(KUse(kernel, self), "manifold"), self)
           /\ cb' = [BridgeIdle EXCEPT
                        !.pc = "set_properties", !.op = "replace",
                        !.mem = mem, !.object = ReplacerAddr,
                        !.ctx = CCtxAddr, !.self = self,
                        !.manifold_ptr = Fresh(kernel),
                        !.verts = KVertices(kernel.heap[self].val),
                        !.old_count = old_properties_per_vertex_count,
                        !.new_count = new_properties_per_vertex_count,
                        !.num_prop = AsI32(new_properties_per_vertex_count)]
           /\ UNCHANGED <<wrappers, drops, last, sc, mx>>

\* manifold_set_properties calls the function pointer for the next vertex,
\* with the rows it keeps for that vertex.
ReplaceTrampoline ==
    /\ cb.pc = "set_properties"
    /\ cb.num_prop > 0
    /\ cb.i < Len(cb.verts)
    /\ \E old_prop \in KOldProp(cb.old_count), runs_drop \in BOOLEAN :
           LET mem == [cb.mem EXCEPT ![NewPropAddr] = KBuffer(cb.num_prop),
                                     ![OldPropAddr] = KBuffer(cb.old_count)]
               r == manifold3d_manifold_replace_vertex_properties_fn(
                        mem, NewPropAddr, cb.verts[cb.i + 1], old_prop, cb.ctx,
                        runs_drop)
           IN cb' = [cb EXCEPT
                        !.mem = r.mem, !.i = @ + 1, !.inv = r.inv,
                        !.pc = IF r.inv.exit = "abort" THEN "aborted"
                               ELSE IF r.inv.exit = "unwind" THEN "unwound"
                               ELSE @]
    /\ UNCHANGED <<hvars, sc, mx>>

\* manifold_set_properties cannot allocate a negative number of properties.
ReplaceAbort ==
    /\ cb.pc = "set_properties"
    /\ cb.num_prop < 0
    /\ cb' = [cb EXCEPT !.pc = "aborted"]
    /\ UNCHANGED <<hvars, sc, mx>>

\* manifold_set_properties returns; replace_vertex_properties wraps the
\* result.
ReplaceReturn ==
    /\ cb.pc = "set_properties"
    /\ cb.num_prop = 0 \/ (cb.num_prop > 0 /\ cb.i = Len(cb.verts))
    /\ Returns("replace_vertex_properties", cb.self,
               Out([KOp(kernel, cb.manifold_ptr, <<>>,
                        kernel.heap[cb.self].val)
                       EXCEPT !.props[cb.manifold_ptr] = cb.num_prop],
                   {cb.manifold_ptr}, {cb.manifold_ptr}, NoRet))
    /\ cb' = [cb EXCEPT !.pc = "idle", !.mem = CallerMem]
    /\ UNCHANGED <<sc, mx>>

\* The caller is blocked while a kernel call is in flight.
BridgeNewTetrahedron == cb.pc = "idle" /\ NewTetrahedron

BridgeDropManifold == cb.pc = "idle" /\ DropManifold

\* ------------------------------------------------------ calls in batches

BooleanOperation == {"Add", "Subtract", "Intersect"}

\* batch_boolean on a slice that is not empty; the caller's arguments and
\* the kernel calls made for them are kept.
BatchBooleanSome ==
    \E self \in Live("manifold"), n \in 1..(MaxOthers + 1),
       operation \in BooleanOperation :
        \E others \in Distinct(Live("manifold"), n) :
            LET r == Manifold_batch_boolean_some(kernel, self, others,
                                                 operation)
            IN /\ HasFree(kernel, 2)
               /\ Returns("batch_boolean", self,
                          Manifold_batch_boolean(kernel, self, others,
                                                 operation))
               /\ sc' = ScCall("batch_boolean",
                               [self |-> self, others |-> others,
                                operation |-> operation],
                               [sets |-> r.sets, calls |-> r.calls])
               /\ UNCHANGED <<cb, mx>>

\* Manifold::scale by zero or by one.
Scale ==
    \E self \in Live("manifold"), arg \in Coords :
        /\ HasFree(kernel, 1)
        /\ Returns("unary", self, Manifold_unary(kernel, self, "scale", arg))
        /\ UNCHANGED <<sc, cb, mx>>

\* Manifold::translate and Manifold::rotate along and about the x axis; the
\* kernel function reached and the number handed to it are kept.
Translate ==
    \E self \in Live("manifold"), x \in Coords :
        /\ HasFree(kernel, 1)
        /\ Returns("translate", self,
                   Manifold_unary(kernel, self, "translate", x))
        /\ sc' = ScCall("translate", [self |-> self, x |-> x],
                        [fn |-> UnaryKernelFn("translate"), x |-> x])
        /\ UNCHANGED <<cb, mx>>

Rotate ==
    \E self \in Live("manifold"), x \in Coords :
        /\ HasFree(kernel, 1)
        /\ Returns("rotate", self,
                   Manifold_unary(kernel, self, "rotate", RotationX(x)))
        /\ sc' = ScCall("rotate", [self |-> self, x |-> x],
                        [fn |-> UnaryKernelFn("rotate"), x |-> RotationX(x)])
        /\ UNCHANGED <<cb, mx>>

\* ------------------------------------------------------ calls on points

\* a == b on f64: NaN equals nothing.
FEq(a, b) == ~a.nan /\ ~b.nan /\ a.v = b.v

\* f64::is_finite
F64_is_finite(a) == ~a.nan

\* A conversion that reads x into y and y into x.
Point3_from_yx(value) == [x |-> value.y, y |-> value.x, z |-> value.z]

\* impl From<ManifoldVec3> for Point3
Point3_from(value) == [x |-> value.x, y |-> value.y, z |-> value.z]

\* #[derive(PartialEq)] on Point3
Point3_eq(self, other) ==
    FEq(self.x, other.x) /\ FEq(self.y, other.y) /\ FEq(self.z, other.z)

\* The components a caller's point has: small multiples of 1/Den, and NaN.
PointComponents == {Num(v) : v \in (-MaxCoord)..MaxCoord} \cup {NaN}

Point3Inputs ==
    {Point3_new(x, y, z) : x \in PointComponents, y \in PointComponents,
                           z \in PointComponents}

\* point.into(): the point at hand goes to the kernel's ManifoldVec3.
IntoManifoldVec3 ==
    /\ sc.op = "input"
    /\ sc' = ScCall("ManifoldVec3::from", sc.arg, ManifoldVec3_from(sc.arg))
    /\ UNCHANGED <<hvars, cb, mx>>

\* vec.into(): the ManifoldVec3 comes back as a Point3.
IntoPoint3 ==
    /\ sc.op = "ManifoldVec3::from"
    /\ sc' = ScCall("Point3::from", sc.arg, Point3_from(sc.res))
    /\ UNCHANGED <<hvars, cb, mx>>

\* ------------------------------------------------------ calls on angles

\* NormalizedAngle::get
NormalizedAngle_get(self) == self.inner

\* impl Add for NormalizedAngle
NormalizedAngle_add(self, rhs) ==
    NormalizedAngle_from_degrees(FAdd(self.inner, rhs.inner))

\* impl AddAssign for NormalizedAngle: what self holds afterwards.
NormalizedAngle_add_assign(self, rhs) ==
    [self EXCEPT !.inner = NormalizedAngle_normalize(FAdd(self.inner, rhs.inner))]

\* impl Sub for NormalizedAngle
NormalizedAngle_sub(self, rhs) ==
    NormalizedAngle_from_degrees(FSub(self.inner, rhs.inner))

\* impl SubAssign for NormalizedAngle: what self holds afterwards.
NormalizedAngle_sub_assign(self, rhs) ==
    [self EXCEPT !.inner = NormalizedAngle_normalize(FSub(self.inner, rhs.inner))]

\* The angles a caller holds: values in [0, 360), evenly spaced.
AngleInputs ==
    {[inner |-> Num(k * ((FullTurn * Den) \div MaxAngles))] :
        k \in 0..(MaxAngles - 1)}

AnglePairs == {[a |-> a, b |-> b] : a \in AngleInputs, b \in AngleInputs}

\* a + b
AngleAdd ==
    /\ sc.op = "input"
    /\ sc' = ScCall("add", sc.arg, NormalizedAngle_add(sc.arg.a, sc.arg.b))
    /\ UNCHANGED <<hvars, cb, mx>>

\* a += b
AngleAddAssign ==
    /\ sc.op = "input"
    /\ sc' = ScCall("add_assign", sc.arg,
                    NormalizedAngle_add_assign(sc.arg.a, sc.arg.b))
    /\ UNCHANGED <<hvars, cb, mx>>

\* a - b
AngleSub ==
    /\ sc.op = "input"
    /\ sc' = ScCall("sub", sc.arg, NormalizedAngle_sub(sc.arg.a, sc.arg.b))
    /\ UNCHANGED <<hvars, cb, mx>>

\* a -= b
AngleSubAssign ==
    /\ sc.op = "input"
    /\ sc' = ScCall("sub_assign", sc.arg,
                    NormalizedAngle_sub_assign(sc.arg.a, sc.arg.b))
    /\ UNCHANGED <<hvars, cb, mx>>

\* ---------------------------------------------------------- the macro crate

Threads == 1..MaxThreads

\* No thread holds the lock.
NoThread == 0

\* Identifiers and symbol names are sequences of characters.
UpperCase ==
    <<"A", "B", "C", "D", "E", "F", "G", "H", "I", "J", "K", "L", "M", "N",
      "O", "P", "Q", "R", "S", "T", "U", "V", "W", "X", "Y", "Z">>

LowerCase ==
    <<"a", "b", "c", "d", "e", "f", "g", "h", "i", "j", "k", "l", "m", "n",
      "o", "p", "q", "r", "s", "t", "u", "v", "w", "x", "y", "z">>

Digits == <<"0", "1", "2", "3", "4", "5", "6", "7", "8", "9">>

\* char::to_ascii_lowercase
char_to_ascii_lowercase(c) ==
    IF \E i \in 1..Len(UpperCase) : UpperCase[i] = c
    THEN LowerCase[CHOOSE i \in 1..Len(UpperCase) : UpperCase[i] = c]
    ELSE c

\* str::to_ascii_lowercase
to_ascii_lowercase(str) ==
    [i \in 1..Len(str) |-> char_to_ascii_lowercase(str[i])]

\* The decimal digits of an unsigned integer, as `{}` formats it.
RECURSIVE u64_to_string(_)
u64_to_string(n) ==
    IF n < 10 THEN <<Digits[n + 1]>>
    ELSE u64_to_string(n \div 10) \o <<Digits[(n % 10) + 1]>>

\* The structs the attribute macros are applied to: two whose names differ
\* in case only, one whose name ends like a counter value, and the
\* MyPropertyReplacer of the crate's own test.
MyPropertyReplacer ==
    <<"M", "y", "P", "r", "o", "p", "e", "r", "t", "y",
      "R", "e", "p", "l", "a", "c", "e", "r">>

StructIdents == {<<"F", "o">>, <<"f", "o">>, <<"f", "o", "_", "1">>, MyPropertyReplacer}

Macros == {"manifold_warp", "manifold_manage_vertex_properties"}

\* A counter that hands out the same value again.
AtomicU64_load(counter, val) == [counter |-> counter, old |-> counter]

\* AtomicU64::fetch_add(val, SeqCst): one indivisible read and write.
AtomicU64_fetch_add(counter, val) ==
    [counter |-> counter + val, old |-> counter]

\* format!("manifold3d_manifold_warp_fn_{}_{}", ..) and
\* format!("manifold3d_manifold_replace_vertex_properties_fn_{}_{}", ..):
\* the fixed part of the name is kept as one piece.
extern_c_fn_ident(macro, struct_name, unique_id) ==
    <<IF macro = "manifold_warp"
      THEN "manifold3d_manifold_warp_fn_"
      ELSE "manifold3d_manifold_replace_vertex_properties_fn_">>
        \o to_ascii_lowercase(struct_name) \o <<"_">>
        \o u64_to_string(unique_id)

\* What manifold_warp gives back for a struct: the extern "C" function, the
\* type its ctx is cast to, and the types the two impls are written for.
manifold_warp_output(struct_ident, fn_ident) ==
    [macro |-> "manifold_warp", struct |-> struct_ident,
     fn_ident |-> fn_ident, cast_to |-> struct_ident,
     extern_c_impl_for |-> struct_ident, marker_impl_for |-> struct_ident]

\* What manifold_manage_vertex_properties gives back for a struct.
manifold_manage_vertex_properties_output(struct_ident, fn_ident) ==
    [macro |-> "manifold_manage_vertex_properties", struct |-> struct_ident,
     fn_ident |-> fn_ident, cast_to |-> struct_ident,
     extern_c_impl_for |-> MyPropertyReplacer,
     marker_impl_for |-> MyPropertyReplacer]

MacroIdle ==
    [pc |-> "idle", macro |-> "none", struct_ident |-> <<>>, unique_id |-> 0]

\* static UNIQUE_COUNTER: Mutex<AtomicU64> = Mutex::new(AtomicU64::new(0));
MacrosInit ==
    [counter |-> 0, lock |-> NoThread, started |-> 0,
     th |-> [t \in Threads |-> MacroIdle], out |-> <<>>]

\* The compiler calls one of the two macros on a struct; the macro parses
\* its input.
MacroParse ==
    \E t \in Threads, macro \in Macros, struct_ident \in StructIdents :
        /\ mx.th[t].pc = "idle"
        /\ mx.started < MaxExpansions
        /\ mx' = [mx EXCEPT
                     !.started = @ + 1,
                     !.th[t] = [MacroIdle EXCEPT
                                   !.pc = "lock", !.macro = macro,
                                   !.struct_ident = struct_ident]]
        /\ UNCHANGED <<hvars, sc, cb>>

\* UNIQUE_COUNTER.lock(): waits until no other thread holds the mutex. No
\* holder panics, so the mutex is never poisoned.
MacroLock ==
    \E t \in Threads :
        /\ mx.th[t].pc = "lock"
        /\ mx.lock = NoThread
        /\ mx' = [mx EXCEPT !.lock = t, !.th[t].pc = "fetch_add"]
        /\ UNCHANGED <<hvars, sc, cb>>

\* guard.fetch_add(1, SeqCst)
MacroFetchAdd ==
    \E t \in Threads :
        /\ mx.th[t].pc = "fetch_add"
        /\ LET r == AtomicU64_fetch_add(mx.counter, 1)
           IN mx' = [mx EXCEPT !.counter = r.counter,
                               !.th[t].unique_id = r.old,
                               !.th[t].pc = "unlock"]
        /\ UNCHANGED <<hvars, sc, cb>>

\* The guard goes out of scope at the end of the match.
MacroUnlock ==
    \E t \in Threads :
        /\ mx.th[t].pc = "unlock"
        /\ mx' = [mx EXCEPT !.lock = NoThread, !.th[t].pc = "quote"]
        /\ UNCHANGED <<hvars, sc, cb>>

\* The macro names the extern "C" function and returns the generated items.
MacroQuote ==
    \E t \in Threads :
        LET me == mx.th[t]
            fn_ident == extern_c_fn_ident(me.macro, me.struct_ident,
                                          me.unique_id)
            output == IF me.macro = "manifold_warp"
                      THEN manifold_warp_output(me.struct_ident, fn_ident)
                      ELSE manifold_manage_vertex_properties_output(
                               me.struct_ident, fn_ident)
        IN /\ me.pc = "quote"
           /\ mx' = [mx EXCEPT !.out = Append(@, output),
                               !.th[t] = MacroIdle]
           /\ UNCHANGED <<hvars, sc, cb>>

\* ------------------------------------------------------------ specification

HInit ==
    /\ kernel = KernelInit
    /\ wrappers = [h \in Handles |-> 0]
    /\ drops = [h \in Handles |-> 0]
    /\ last = Call("init", NoHandle, {}, {}, NoRet)

Init == HInit /\ sc = ScInput(Zero) /\ cb = BridgeIdle /\ mx = MacrosInit

Next ==
    \/ NewTetrahedron
    \/ NewCuboid
    \/ NewEmpty
    \/ NewSphereUnchecked
    \/ FromMeshGl
    \/ Boolean
    \/ BatchBoolean
    \/ Split
    \/ ManifoldUnary
    \/ BoundingBoxOf
    \/ Mesh
    \/ Query
    \/ CloneManifold
    \/ DropManifold
    \/ Merge
    \/ Smooth
    \/ CloneMeshGL
    \/ DropMeshGL
    \/ NewBox
    \/ BoxMinMax
    \/ ExpandToIncludePoint
    \/ BoxUnion
    \/ BoxUnary
    \/ OverlapsPoint
    \/ DropBox
    \/ NewSimplePolygon
    \/ DropSimplePolygon
    \/ FromSimplePolygons
    \/ Extrude
    \/ CrossSectionOf
    \/ PolygonsGet
    \/ DropPolygons
    \/ DropCrossSection

vars == <<kernel, wrappers, drops, last, sc, cb, mx>>

Spec == Init /\ [][Next]_vars

NextScalar ==
    \/ PositiveNew
    \/ PositiveFrom
    \/ PositiveTryFrom
    \/ NonNegativeNew
    \/ NonNegativeFrom
    \/ NonNegativeTryFrom
    \/ FromDegrees
    \/ MinimumSmoothnessNew
    \/ EdgeSplitCountNew
    \/ ErrorFrom

InitScalar ==
    /\ HInit
    /\ sc \in {ScInput(arg) : arg \in F64Inputs}
    /\ cb = BridgeIdle
    /\ mx = MacrosInit

SpecScalar == InitScalar /\ [][NextScalar]_vars

\* The collections on their own: polygons and the simple polygons in them.
NextCollections ==
    \/ NewSimplePolygon
    \/ DropSimplePolygon
    \/ FromSimplePolygons
    \/ PolygonsGet
    \/ GetPoint
    \/ DropPolygons

SpecCollections == Init /\ [][NextCollections]_vars

\* The calls that hand a callback to the kernel.
NextBridge ==
    \/ BridgeNewTetrahedron
    \/ BridgeDropManifold
    \/ WarpCall
    \/ WarpTrampoline
    \/ WarpReturn
    \/ ReplaceCall
    \/ ReplaceTrampoline
    \/ ReplaceAbort
    \/ ReplaceReturn

SpecBridge == Init /\ [][NextBridge]_vars

\* Points on their way to the kernel and back.
NextPoints ==
    \/ IntoManifoldVec3
    \/ IntoPoint3

InitPoints ==
    /\ HInit
    /\ sc \in {ScInput(arg) : arg \in Point3Inputs}
    /\ cb = BridgeIdle
    /\ mx = MacrosInit

SpecPoints == InitPoints /\ [][NextPoints]_vars

\* Arithmetic on pairs of normalized angles.
NextAngles ==
    \/ AngleAdd
    \/ AngleAddAssign
    \/ AngleSub
    \/ AngleSubAssign

InitAngles ==
    /\ HInit
    /\ sc \in {ScInput(arg) : arg \in AnglePairs}
    /\ cb = BridgeIdle
    /\ mx = MacrosInit

SpecAngles == InitAngles /\ [][NextAngles]_vars

\* The compiler process that expands the attribute macros of one crate.
NextMacros ==
    \/ MacroParse
    \/ MacroLock
    \/ MacroFetchAdd
    \/ MacroUnlock
    \/ MacroQuote

SpecMacros == Init /\ [][NextMacros]_vars

\* Building a Polygons and taking it apart again.
NextAsVec ==
    \/ NewSimplePolygon
    \/ FromSimplePolygons
    \/ PolygonsGet
    \/ PolygonsAsVec
    \/ DropPolygons

InitAsVec ==
    /\ kernel = [KernelInit EXCEPT !.cap = CollectionHandles]
    /\ wrappers = [h \in Handles |-> 0]
    /\ drops = [h \in Handles |-> 0]
    /\ last = Call("init", NoHandle, {}, {}, NoRet)
    /\ sc = ScInput(Zero)
    /\ cb = BridgeIdle
    /\ mx = MacrosInit

SpecAsVec == InitAsVec /\ [][NextAsVec]_vars

\* Manifolds moved and turned.
NextTransform ==
    \/ NewTetrahedron
    \/ Translate
    \/ Rotate
    \/ DropManifold

SpecTransform == InitAsVec /\ [][NextTransform]_vars

\* Manifolds put together in batches.
NextBatch ==
    \/ NewTetrahedron
    \/ Scale
    \/ BatchBooleanSome

SpecBatch == InitAsVec /\ [][NextBatch]_vars

\* ------------------------------------------------------ handle life cycle

\* C1: dropping a successfully constructed wrapper of any kind results in
\* exactly one call of the kernel delete function of its handle type on its
\* handle: every handle whose wrapper was dropped has been deleted once, by
\* the delete function matching its kind.
C1_DropDeletesOnce ==
    \A h \in Handles :
        drops[h] >= 1 =>
            /\ kernel.heap[h].dels = 1
            /\ kernel.heap[h].delfn = kernel.heap[h].kind

\* C2: no leaks and no double frees: once no wrapper is live, every handle
\* the kernel allocated has been passed to a delete function exactly once.
C2_NoLeakNoDoubleFree ==
    (\A h \in Handles : wrappers[h] = 0) =>
        \A h \in Handles :
            kernel.heap[h].st # "free" => kernel.heap[h].dels = 1

\* C3: a clone of a Manifold or a MeshGL is a kernel copy in a freshly
\* allocated handle that differs from the source's; no two live wrappers
\* hold the same handle; no Manifold or MeshGL handle is deleted twice.
C3_CloneIsCopy ==
    /\ \A h \in Handles : wrappers[h] <= 1
    /\ \A h \in Handles :
           kernel.heap[h].kind \in {"manifold", "meshgl"} =>
               kernel.heap[h].dels <= 1
    /\ last.op = "clone" =>
           \E c \in last.made :
               /\ last.res = {c}
               /\ c # last.recv
               /\ wrappers[c] = 1
               /\ kernel.heap[c].st = "init"
               /\ kernel.heap[c].kind = kernel.heap[last.recv].kind
               /\ kernel.heap[c].val = kernel.heap[last.recv].val

\* C3, its case: a clone was just made and both it and its source are held.
C3_Witness ==
    /\ last.op = "clone"
    /\ wrappers[last.recv] = 1
    /\ \E c \in last.res : c # last.recv /\ wrappers[c] = 1

\* C4 as stated: no public operation changes the native object behind a
\* handle that exists before and after the call,
\* BoundingBox::expand_to_include_point included.
C4_NoOperationMutates ==
    [][\A h \in Handles :
           (kernel.heap[h].st = "init" /\ kernel'.heap[h].st = "init") =>
               kernel'.heap[h].val = kernel.heap[h].val]_vars

\* C4, amended: the only public operation that changes the native object
\* behind an existing handle is BoundingBox::expand_to_include_point, and it
\* changes its receiver only; every other operation writes only into handles
\* it allocated during the call.
C4_OnlyExpandMutates ==
    [][\A h \in Handles :
           /\ (/\ kernel.heap[h].st = "init"
               /\ kernel'.heap[h].st = "init"
               /\ kernel'.heap[h].val # kernel.heap[h].val) =>
                  (last'.op = "expand_to_include_point" /\ last'.recv = h)
           /\ (kernel.heap[h].st # "init" /\ kernel'.heap[h].st = "init") =>
                  (kernel.heap[h].st = "free" /\ h \in last'.made)]_vars

\* C4, its case: a translate produced new geometry in a new handle and the
\* receiver still holds what it held.
C4_Witness ==
    /\ last.op = "translate"
    /\ kernel.heap[last.recv].st = "init"
    /\ \E c \in last.res :
           /\ c # last.recv
           /\ kernel.heap[c].val # kernel.heap[last.recv].val

\* C5: a handle that is only allocated is never wrapped and never passed to
\* the kernel as an input operand.
C5_NoUninitialisedOperand ==
    /\ kernel.uninit = {}
    /\ \A h \in Handles : wrappers[h] > 0 => kernel.heap[h].st # "alloc"

\* ------------------------------------------------- validated scalar claims

\* C6: every PositiveNum a public construction path (new, TryFrom, From)
\* returns holds a value > 0, and every NonNegativeNum a value >= 0.
C6_ScalarsSatisfyPredicate ==
    /\ (/\ sc.op \in {"PositiveNum::new", "PositiveF64::from",
                      "PositiveI32::from", "PositiveF64::try_from",
                      "PositiveI32::try_from"}
        /\ sc.res.ok) => Gt(PositiveNum_get(sc.res.val), Zero)
    /\ (/\ sc.op \in {"NonNegativeNum::new", "NonNegativeF64::from",
                      "NonNegativeI32::from", "NonNegativeF64::try_from",
                      "NonNegativeI32::try_from"}
        /\ sc.res.ok) => Ge(NonNegativeNum_get(sc.res.val), Zero)

\* C7: for all v <= 0, PositiveNum::new(v) fails with NonPositiveValue; for
\* all v > 0 it succeeds and get() returns v.
C7_PositiveNumNew ==
    sc.op = "PositiveNum::new" =>
        /\ Le(sc.arg, Zero) =>
               ~sc.res.ok /\ sc.res.err = "NonPositiveValue"
        /\ Gt(sc.arg, Zero) =>
               sc.res.ok /\ PositiveNum_get(sc.res.val) = sc.arg

\* C7, its case: new(0) was called and failed.
C7_Witness ==
    /\ sc.op = "PositiveNum::new"
    /\ sc.arg = Zero
    /\ ~sc.res.ok

\* C8 as stated: NonNegativeNum::new(v) fails with NonPositiveValue exactly
\* when v < 0; for every v >= 0 it succeeds and get() returns v.
C8_FailsExactlyWhenNegative ==
    sc.op = "NonNegativeNum::new" =>
        /\ ~sc.res.ok <=> Lt(sc.arg, Zero)
        /\ ~sc.res.ok => sc.res.err = "NonPositiveValue"
        /\ Ge(sc.arg, Zero) =>
               sc.res.ok /\ NonNegativeNum_get(sc.res.val) = sc.arg

\* C8, amended: NonNegativeNum::new(v) fails with NonPositiveValue exactly
\* when v >= 0 does not hold, that is when v < 0 or v is NaN; for every
\* v >= 0 it succeeds and get() returns v.
C8_FailsExactlyWhenNotNonNegative ==
    sc.op = "NonNegativeNum::new" =>
        /\ ~sc.res.ok <=> (sc.arg.nan \/ sc.arg.v < 0)
        /\ ~sc.res.ok => sc.res.err = "NonPositiveValue"
        /\ (~sc.arg.nan /\ sc.arg.v >= 0) =>
               sc.res.ok /\ NonNegativeNum_get(sc.res.val) = sc.arg

\* C8, its case: new(0) was called and succeeded with 0.
C8_Witness ==
    /\ sc.op = "NonNegativeNum::new"
    /\ sc.arg = Zero
    /\ sc.res.ok
    /\ NonNegativeNum_get(sc.res.val) = Zero

\* C9: for every finite v, as_degrees() of NormalizedAngle::from_degrees(v)
\* lies in [0, 360).
C9_FromDegreesInRange ==
    (sc.op = "NormalizedAngle::from_degrees" /\ ~sc.arg.nan) =>
        LET d == NormalizedAngle_as_degrees(sc.res.val)
        IN ~d.nan /\ 0 <= d.v /\ d.v < FullTurn * Den

\* C10: MinimumSmoothness::new(v) fails with OutOfBounds{minimum: 0.0,
\* maximum: 1.0, actual: v} exactly when v is not in [0, 1]; for every v in
\* [0, 1], bounds included, it succeeds and get() returns v.
C10_MinimumSmoothnessNew ==
    sc.op = "MinimumSmoothness::new" =>
        LET inside == ~sc.arg.nan /\ 0 <= sc.arg.v /\ sc.arg.v <= Den
        IN /\ ~sc.res.ok <=> ~inside
           /\ ~sc.res.ok =>
                  /\ sc.res.err = "OutOfBounds"
                  /\ sc.res.minimum = Num(0)
                  /\ sc.res.maximum = Num(Den)
                  /\ sc.res.actual = sc.arg
           /\ inside =>
                  sc.res.ok /\ MinimumSmoothness_get(sc.res.val) = sc.arg

\* C10, its case: new(1.0), the upper bound, was called and succeeded.
C10_Witness ==
    /\ sc.op = "MinimumSmoothness::new"
    /\ sc.arg = Num(Den)
    /\ sc.res.ok

\* C11: for every positive integer v, EdgeSplitCount::new(v) fails with
\* TooSmall{minimum: 2, actual: v} exactly when v < 2, and for every v >= 2
\* it succeeds and converts back to the i32 v.
C11_EdgeSplitCountNew ==
    (sc.op = "EdgeSplitCount::new" /\ sc.arg.v > 0) =>
        /\ ~sc.res.ok <=> sc.arg.v < 2
        /\ ~sc.res.ok =>
               /\ sc.res.err = "TooSmall"
               /\ sc.res.minimum = 2
               /\ sc.res.actual = sc.arg.v
        /\ sc.res.ok => EdgeSplitCount_into_i32(sc.res.val) = sc.arg.v

\* C11, its case: new(1) was called and failed with actual 1.
C11_Witness ==
    /\ sc.op = "EdgeSplitCount::new"
    /\ sc.arg.v = 1
    /\ ~sc.res.ok
    /\ sc.res.actual = 1

\* C12: Error::from(code) is total: each of the twelve kernel status
\* constants maps to its own named variant, no two codes map to the same
\* value, and every other code c maps to Unknown(c) carrying the raw code.
C12_ErrorFromTotal ==
    sc.op = "Error::from" =>
        LET code == sc.arg.v
            e == sc.res.val
            named == <<"NoError", "NonFiniteVertex", "NotManifold",
                       "VertexIndexOutOfBounds", "PropertiesWrongLength",
                       "MissingPositionProperties",
                       "MergeVectorsDifferentLengths", "MergeIndexOutOfBounds",
                       "TransformWrongLength", "RunIndexWrongLength",
                       "FaceIdWrongLength", "InvalidConstruction">>
        IN /\ sc.res.ok
           /\ code \in 0..11 => e.variant = named[code + 1] /\ e.raw = 0
           /\ code \notin 0..11 => e.variant = "Unknown" /\ e.raw = code
           /\ \A other \in UnsignedInputs :
                  other # code => Error_from(other) # e

\* C12, its case: a code past the twelve constants was converted.
C12_Witness ==
    /\ sc.op = "Error::from"
    /\ sc.arg.v = ManifoldError_MANIFOLD_INVALID_CONSTRUCTION + 1
    /\ sc.res.val = Error_Unknown(sc.arg.v)

\* C13: Manifold::from_mesh_gl asks the kernel for the status of the new
\* handle before it returns: it returns Ok(manifold) exactly when that status
\* is NoError, and Err(Error::from(status)) otherwise.
C13_FromMeshGlChecksStatus ==
    last.op = "from_mesh_gl" =>
        /\ last.ret.tag \in {"Ok", "Err"}
        /\ last.ret.tag = "Ok" <=> last.ret.n = ManifoldError_MANIFOLD_NO_ERROR
        /\ last.ret.tag = "Ok" => \E m \in last.made : last.res = {m}
        /\ last.ret.tag = "Err" =>
               /\ last.res = {}
               /\ last.ret.err = Error_from(last.ret.n)
               /\ last.ret.n = ManifoldError_MANIFOLD_NOT_MANIFOLD =>
                      last.ret.err.variant = "NotManifold"
               /\ last.ret.n > ManifoldError_MANIFOLD_INVALID_CONSTRUCTION =>
                      /\ last.ret.err.variant = "Unknown"
                      /\ last.ret.err.raw = last.ret.n

\* C13, its case: the kernel reported NotManifold for the mesh and
\* from_mesh_gl returned Err.
C13_Witness ==
    /\ last.op = "from_mesh_gl"
    /\ last.ret.tag = "Err"
    /\ last.ret.n = ManifoldError_MANIFOLD_NOT_MANIFOLD

\* C14: when a fallible constructor (from_mesh_gl, smooth, extrude, revolve,
\* new_sphere_unchecked) returns Err, no wrapper of the result handle is
\* live, the result handle was passed to manifold_delete_manifold exactly
\* once and every other handle is as it was; when it returns Ok the result
\* handle is not deleted and is owned by the one wrapper returned.
C14_FallibleConstructors ==
    [][(/\ last'.op \in {"from_mesh_gl", "smooth", "extrude",
                         "new_sphere_unchecked"}
        /\ last' # last) =>
          /\ \E m \in Handles : last'.made = {m}
          /\ \A h \in Handles \ last'.made :
                 /\ kernel'.heap[h] = kernel.heap[h]
                 /\ wrappers'[h] = wrappers[h]
          /\ last'.ret.tag = "Err" =>
                 /\ last'.res = {}
                 /\ \A m \in last'.made :
                        /\ wrappers'[m] = 0
                        /\ kernel'.heap[m].dels = 1
                        /\ kernel'.heap[m].delfn = "manifold"
          /\ last'.ret.tag = "Ok" =>
                 /\ last'.res = last'.made
                 /\ \A m \in last'.made :
                        /\ wrappers'[m] = 1
                        /\ kernel'.heap[m].dels = 0
                        /\ kernel'.heap[m].st = "init"]_vars

\* C14, its case: MeshGL::smooth returned Err and the manifold it had built
\* is deleted.
C14_Witness ==
    /\ last.op = "smooth"
    /\ last.ret.tag = "Err"
    /\ \E m \in last.made : kernel.heap[m].dels = 1 /\ wrappers[m] = 0

\* ------------------------------------------------------ collection claims

\* C15: Polygons::get(i) and SimplePolygon::get_point(i) return None exactly
\* when i >= the collection's length, and then allocate nothing and read no
\* element; for every i below the length they return Some of element i.
C15_BoundsCheckedGet ==
    /\ kernel.oob = {}
    /\ last.op = "get" =>
           LET self == last.recv
               i == last.ret.n
           IN /\ last.ret.tag \in {"None", "Some"}
              /\ last.ret.tag = "None" <=> i >= Len(kernel.heap[self].val)
              /\ last.ret.tag = "None" => last.made = {} /\ last.res = {}
              /\ last.ret.tag = "Some" =>
                     \E c \in last.made :
                         /\ last.res = {c}
                         /\ kernel.heap[c].kind = "simple_polygon"
                         /\ kernel.heap[c].val = kernel.heap[self].val[i + 1]
    /\ last.op = "get_point" =>
           LET self == last.recv
               i == last.ret.at
           IN /\ last.ret.tag \in {"None", "Some"}
              /\ last.ret.tag = "None" <=> i >= Len(kernel.heap[self].val)
              /\ last.made = {} /\ last.res = {}
              /\ last.ret.tag = "Some" =>
                     last.ret.n = kernel.heap[self].val[i + 1]

\* C15, its case: a lookup at the index equal to the length of a non-empty
\* SimplePolygon returned None.
C15_Witness ==
    /\ last.op = "get_point"
    /\ last.ret.tag = "None"
    /\ last.ret.at = Len(kernel.heap[last.recv].val)
    /\ last.ret.at > 0

\* C16: Polygons::as_vec never panics and returns exactly count() wrappers;
\* wrapper i is materialized from kernel element i, in index order, and each
\* wrapper owns a handle of its own, allocated by this call and distinct
\* from the handles of the others.
C16_AsVecMaterializesEach ==
    [][(last'.op = "as_vec" /\ last' # last) =>
          LET self == last'.recv
              v == last'.ret.vec
          IN /\ last'.ret.tag = "Vec"
             /\ Len(v) = Polygons_count(kernel, self)
             /\ \A i \in 1..Len(v) :
                    /\ kernel.heap[v[i]].st = "free"
                    /\ kernel'.heap[v[i]].st = "init"
                    /\ kernel'.heap[v[i]].kind = "simple_polygon"
                    /\ kernel'.heap[v[i]].val = kernel.heap[self].val[i]
                    /\ wrappers'[v[i]] = 1
                    /\ \A j \in 1..Len(v) : v[i] = v[j] => i = j
             /\ kernel'.heap[self] = kernel.heap[self]
             /\ wrappers'[self] = wrappers[self]]_vars

\* C16, its case: as_vec returned two wrappers whose contents differ, so
\* the order in which they come back can be told.
C16_Witness ==
    /\ last.op = "as_vec"
    /\ Len(last.ret.vec) = 2
    /\ kernel.heap[last.ret.vec[1]].val # kernel.heap[last.ret.vec[2]].val

\* ------------------------------------------------------- callback claims

\* C17: in Manifold::warp the context pointer handed to the kernel is the
\* address of the caller's warp object; every invocation of the trampoline
\* with (x, y, z, ctx) resolves ctx to that object and returns exactly its
\* warp_vertex(Point3(x, y, z)), component for component; so the bounding
\* box of the result is the bounding box of the target shifted by the
\* object's translation: by (1,1,1) for a warp that adds (1,1,1).
C17_WarpReachesCallersObject ==
    cb.op = "warp" =>
        LET warp == CallerMem[cb.object]
        IN /\ cb.ctx = cb.object
           /\ cb.mem[cb.ctx] = warp
           /\ \A i \in 1..Len(cb.out) :
                  LET v == cb.verts[i]
                      p == TranslationWarp_warp_vertex(
                               warp, Point3_new(v.x, v.y, v.z))
                  IN /\ cb.out[i].x = p.x
                     /\ cb.out[i].y = p.y
                     /\ cb.out[i].z = p.z
           /\ (cb.pc = "idle" /\ warp.translation = Vec3_new(Den, Den, Den)) =>
                  /\ BoxMin(cb.out) =
                         Point3_new(BoxMin(cb.verts).x + Den,
                                    BoxMin(cb.verts).y + Den,
                                    BoxMin(cb.verts).z + Den)
                  /\ BoxMax(cb.out) =
                         Point3_new(BoxMax(cb.verts).x + Den,
                                    BoxMax(cb.verts).y + Den,
                                    BoxMax(cb.verts).z + Den)
                  /\ last.op = "warp" =>
                         kernel.heap[cb.manifold_ptr].val =
                             <<BoxMin(cb.verts).x + Den,
                               BoxMax(cb.verts).x + Den>>

\* C17, its case: a warp by (1,1,1) has returned after the trampoline ran
\* for every vertex of the target.
C17_Witness ==
    /\ cb.op = "warp"
    /\ cb.pc = "idle"
    /\ CallerMem[cb.object].translation = Vec3_new(Den, Den, Den)
    /\ last.op = "warp"
    /\ Len(cb.out) = Len(cb.verts)
    /\ Len(cb.out) > 1

\* C18: when the kernel passes a null old-properties pointer to the
\* property-replacement trampoline, the callback receives an empty
\* old_properties slice and no slice is made from the null pointer, whatever
\* old_properties_per_vertex_count the context records.
C18_NullOldPropertiesIsEmpty ==
    (cb.op = "replace" /\ cb.inv.exit # "none" /\ cb.inv.old_prop = Null) =>
        /\ cb.inv.old_properties.len = 0
        /\ cb.inv.old_properties.data # Null

\* C18, its case: the trampoline ran with a null old-properties pointer
\* while its context recorded a count above zero.
C18_Witness ==
    /\ cb.op = "replace"
    /\ cb.inv.exit = "return"
    /\ cb.inv.old_prop = Null
    /\ cb.inv.recorded > 0

\* C19: in every callback invocation of one replace_vertex_properties call
\* the new_properties slice is as long as the count
\* new_vertex_properties_count(target) returned before the kernel call, a
\* non-null old_properties pointer gives a slice as long as
\* target.properties_per_vertex_count(), and after the call the result's
\* properties_per_vertex_count is that new count.
C19_SliceLengthsAndResultCount ==
    cb.op = "replace" =>
        /\ cb.inv.exit # "none" =>
               /\ cb.inv.new_properties.len = cb.new_count
               /\ cb.inv.old_prop # Null =>
                      cb.inv.old_properties.len =
                          Manifold_properties_per_vertex_count(kernel, cb.self)
        /\ (cb.pc = "idle" /\ last.op = "replace_vertex_properties") =>
               Manifold_properties_per_vertex_count(kernel, cb.manifold_ptr)
                   = cb.new_count

\* C20: the new-properties buffer handed to the trampoline stays the
\* kernel's: on no exit path of the trampoline, whether the callback returned
\* or panicked, has the bridge given it back to an allocator.
C20_NewPropertiesStayWithKernel ==
    (cb.op = "replace" /\ cb.inv.exit # "none" /\ cb.pc # "idle") =>
        /\ cb.mem[cb.inv.new_prop].type = "f64s"
        /\ cb.mem[cb.inv.new_prop].dealloc = "nobody"
        /\ cb.mem[cb.inv.new_prop].len = cb.num_prop

\* C21: one replace_vertex_properties call makes one context with new_ctx
\* before the kernel call starts and hands the trampoline the address of
\* that one object: every invocation of the call receives it, so the object
\* has counted exactly the invocations made so far, and a later call starts
\* from a fresh context that has counted none of an earlier call's.
C21_OneContextPerCall ==
    (cb.op = "replace" /\ cb.pc # "idle") =>
        /\ cb.mem[cb.ctx].type = "ReplaceVertexPropertiesCCtx"
        /\ cb.mem[cb.ctx].ctx_ptr = CtxAddr
        /\ cb.mem[CtxAddr].type = "MyPropertyReplacerCtx"
        /\ cb.mem[CtxAddr].vertex_count = cb.i
        /\ cb.i = 0 => cb.mem[CtxAddr] = MyPropertyReplacer_new_ctx
        /\ cb.inv.exit # "none" => cb.inv.ctx = CtxAddr

\* C21, its case: a second call is in flight, after an earlier call whose
\* context had counted every vertex, and its trampoline has run more than
\* once.
C21_Witness ==
    /\ cb.op = "replace"
    /\ cb.pc = "set_properties"
    /\ last.op = "replace_vertex_properties"
    /\ cb.i > 1
    /\ cb.i < Len(cb.verts)
    /\ cb.inv.exit = "return"

\* C22: a panic raised inside the caller's callback, warp_vertex or
\* replace_vertex_properties, is stopped in the frame of the trampoline: the
\* trampoline never returns from it and never lets it unwind into the
\* kernel's frames, the process ends there and takes no further step.
C22_PanicStopsAtTrampoline ==
    [][/\ cb.pc \notin {"aborted", "unwound"}
       /\ cb'.pc # "unwound"
       /\ cb'.inv.exit \in {"none", "return", "abort"}
       /\ cb'.inv.panic => (cb'.inv.exit = "abort" /\ cb'.pc = "aborted")]_vars

\* C22, its case: the warp callback panicked at a vertex after it had
\* returned for an earlier one.
C22_Witness ==
    /\ cb.op = "warp"
    /\ cb.inv.panic
    /\ Len(cb.out) > 0

\* C29: in replace_vertex_properties the property count handed to the
\* kernel, the usize count cast to a 32-bit signed integer, is the
\* new_properties_per_vertex_count kept in the callback context, whatever
\* count new_vertex_properties_count returned, so that the slice the
\* trampoline makes is never longer than the row the kernel allocated.
C29_CountSurvivesCast ==
    (cb.op = "replace" /\ cb.pc # "idle") =>
        /\ cb.num_prop = cb.mem[CCtxAddr].new_properties_per_vertex_count
        /\ cb.inv.exit # "none" =>
               cb.inv.new_properties.len <= cb.mem[cb.inv.new_prop].len

\* -------------------------------------------------------------- macro claims

\* C23: any two expansions of manifold_warp and
\* manifold_manage_vertex_properties that share UNIQUE_COUNTER, however
\* their steps interleave and whatever their structs are called, took
\* different counter values and generated different extern "C" names.
C23_UniqueSymbolNames ==
    /\ \A i, j \in 1..Len(mx.out) :
           i # j => mx.out[i].fn_ident # mx.out[j].fn_ident
    /\ \A t, u \in Threads :
           (t # u /\ mx.th[t].pc \in {"unlock", "quote"}
                  /\ mx.th[u].pc \in {"unlock", "quote"}) =>
               mx.th[t].unique_id # mx.th[u].unique_id

\* C23, its case: two expansions of the same macro for structs whose names
\* fall together in lower case have both returned, and the one that locked
\* the counter first returned last.
C23_Witness ==
    \E i, j \in 1..Len(mx.out) :
        /\ i < j
        /\ mx.out[i].macro = mx.out[j].macro
        /\ mx.out[i].struct # mx.out[j].struct
        /\ to_ascii_lowercase(mx.out[i].struct)
               = to_ascii_lowercase(mx.out[j].struct)
        /\ mx.out[i].fn_ident[Len(mx.out[i].fn_ident)] = "1"
        /\ mx.out[j].fn_ident[Len(mx.out[j].fn_ident)] = "0"

\* C27: applied to a struct of any name, manifold_manage_vertex_properties
\* writes the ExternCReplaceVertexPropertiesFn and the ManageVertexProperties
\* implementation for that struct, and its trampoline casts the context's
\* object pointer to that struct, as manifold_warp does for ExternCWarpFn and
\* Warp.
C27_ImplsForTheAnnotatedStruct ==
    \A i \in 1..Len(mx.out) :
        /\ mx.out[i].cast_to = mx.out[i].struct
        /\ mx.out[i].extern_c_impl_for = mx.out[i].struct
        /\ mx.out[i].marker_impl_for = mx.out[i].struct

\* ------------------------------------------------------------- point claims

\* C24: a Point3 with finite components that is converted to the flat
\* ManifoldVec3 and back is equal to the point it started as, with x, y and
\* z each in its own position.
C24_Point3RoundTrip ==
    (sc.op = "Point3::from" /\ F64_is_finite(sc.arg.x)
        /\ F64_is_finite(sc.arg.y) /\ F64_is_finite(sc.arg.z)) =>
        /\ Point3_eq(sc.res, sc.arg)
        /\ sc.res.x = sc.arg.x
        /\ sc.res.y = sc.arg.y
        /\ sc.res.z = sc.arg.z

\* C24, its case: a point with three different finite components has made
\* the round trip.
C24_Witness ==
    /\ sc.op = "Point3::from"
    /\ F64_is_finite(sc.arg.x) /\ F64_is_finite(sc.arg.y)
    /\ F64_is_finite(sc.arg.z)
    /\ sc.arg.x.v < sc.arg.y.v
    /\ sc.arg.y.v < sc.arg.z.v

\* ------------------------------------------------------------- batch claims

\* C25: for a slice of others that is not empty, batch_boolean builds one
\* kernel vector of others.len() + 1 elements with the receiver at index 0
\* and others[i] at index i + 1, writing every index once and in order, and
\* makes one manifold_batch_boolean call on that vector with the operation
\* it was asked for; the result is that operation folded over the vector, so
\* Subtract takes every element of others away from the receiver.
C25_BatchVectorLayout ==
    sc.op = "batch_boolean" =>
        LET self == sc.arg.self
            others == sc.arg.others
            sets == sc.res.sets
            calls == sc.res.calls
            expected == <<self>> \o others
        IN /\ Len(calls) = 1
           /\ calls[1].op =
                  (CASE sc.arg.operation = "Add" -> "MANIFOLD_ADD"
                     [] sc.arg.operation = "Subtract" -> "MANIFOLD_SUBTRACT"
                     [] sc.arg.operation = "Intersect" -> "MANIFOLD_INTERSECT")
           /\ kernel.heap[calls[1].ms].kind = "manifold_vec"
           /\ Len(calls[1].elems) = Len(others) + 1
           /\ calls[1].elems = expected
           /\ kernel.heap[calls[1].ms].val = expected
           /\ Len(sets) = Len(others) + 1
           /\ \A i \in 1..Len(sets) :
                  sets[i] = VecSet(i - 1, expected[i])
           /\ calls[1].ms \notin kernel.oob
           /\ last.op = "batch_boolean" =>
                  \A manifold_ptr \in last.res :
                      kernel.heap[manifold_ptr].val =
                          KBatchBoolean(kernel, calls[1].op,
                                        kernel.heap[self].val, others, 1)

\* C25, its case: Subtract with two others of different extent, neither of
\* them the receiver, has returned.
C25_Witness ==
    /\ sc.op = "batch_boolean"
    /\ last.op = "batch_boolean"
    /\ sc.arg.operation = "Subtract"
    /\ Len(sc.arg.others) = 2
    /\ sc.arg.self \notin Range(sc.arg.others)
    /\ kernel.heap[sc.arg.others[1]].val # kernel.heap[sc.arg.others[2]].val

\* --------------------------------------------------------- transform claims

\* C26: Manifold::rotate rotates: it calls the kernel's rotation with the
\* angles of the Rotation it was given, not another transform such as a
\* translation, and returns the result in a new handle; a rotation about the
\* x axis leaves the extent along the x axis as it was.
C26_RotateRotates ==
    (sc.op = "rotate" /\ last.op = "rotate") =>
        /\ sc.res.fn = "manifold_rotate"
        /\ sc.res.x = sc.arg.x
        /\ \A manifold_ptr \in last.res :
               /\ manifold_ptr # sc.arg.self
               /\ kernel.heap[manifold_ptr].val = kernel.heap[sc.arg.self].val

\* ------------------------------------------------------ use after delete

\* C28: no kernel function is ever called with a handle that was already
\* given to its delete function; in Polygons::from_simple_polygons every
\* SimplePolygon of the input is still undeleted when manifold_polygons
\* reads the array of their pointers.
C28_NoUseAfterDelete ==
    /\ kernel.uaf = {}
    /\ last.op = "from_simple_polygons" =>
           \A h \in Handles :
               (kernel.heap[h].kind = "simple_polygon"
                    /\ kernel.heap[h].st = "deleted") => h \notin kernel.uaf

\* ------------------------------------------------------------ angle claims

\* C30: for all angles a and b whose values lie in [0, 360), the results of
\* a + b, a - b, a += b and a -= b again have values in [0, 360).
C30_ArithmeticStaysInRange ==
    sc.op \in {"add", "sub", "add_assign", "sub_assign"} =>
        LET d == NormalizedAngle_get(sc.res)
        IN ~d.nan /\ 0 <= d.v /\ d.v < FullTurn * Den

====
